---- MODULE Spec2Model ----
(***************************************************************************)
(* The x402 payment gate of elizabao-claw: the gated HTTP handlers of      *)
(* server.ts (/signals/daily, /signals/polymarket/top), the two payment    *)
(* verifiers (verifySolPayment of x402-solana.ts, settleAndVerifyPayment   *)
(* of x402-agentinc.ts), the quote builder and the price conversion, run   *)
(* against a Solana ledger and a SOL/USD price feed.                       *)
(*                                                                         *)
(* Money: a USD price is an IEEE-754 double, as Number() makes it of the   *)
(* text of X402_PRICE_USD; SOL/USD rates are held in cents and converted   *)
(* to the nearest double; lamports are integers.  Strings that the code    *)
(* trims, parses or lower-cases are sequences of characters.               *)
(***************************************************************************)
EXTENDS Integers, Sequences, FiniteSets, TLC

\* ------------------------------------------------------------------ bounds
\* Longest instruction list drawn for the transaction under test (SpecPay).
MaxIx == 3

\* ------------------------------------------------------- program constants
LAMPORTS_PER_SOL == 1000000000
MAX_TIMEOUT_SECONDS == 300
X402_VERSION == 1

\* --------------------------------------------------------------- addresses
TreasuryAddr == "TreasuryPubkey"
OtherAddr == "OtherPubkey"
PayerAddr == "PayerPubkey"
InvalidAddr == "not-a-pubkey"
\* Strings that `new PublicKey(s)` accepts (base58 of exactly 32 bytes).
ValidPubkeys == {TreasuryAddr, OtherAddr, PayerAddr}

\* new PublicKey(s): TRUE when the constructor returns, FALSE when it throws.
PublicKeyOk(s) == s \in ValidPubkeys
\* new PublicKey(s).toBase58(): decoding then encoding a valid key gives the
\* same string back.
toBase58(s) == s

\* undefined: a variable that is not set, a field that is not there.
Undefined == "<undefined>"

\* ----------------------------------------------------- natural numbers
\* JavaScript numbers are IEEE-754 doubles: a 53-bit significand and a
\* binary exponent.  Their arithmetic is done on natural numbers of any
\* size, held as limbs base 2^15 with the least significant limb first and
\* no leading zero limb (<<>> is 0).
Base == 2 ^ 15

Max(a, b) == IF a >= b THEN a ELSE b

\* Limb i of a; 0 beyond its length.
Limb(a, i) == IF i >= 1 /\ i <= Len(a) THEN a[i] ELSE 0

\* The first n limbs of s without its leading zero limbs.
NatNorm(s, n) ==
    LET t == SubSeq(s, 1, n)
        set == {i \in 1..n : t[i] # 0}
    IN IF set = {} THEN <<>>
       ELSE SubSeq(t, 1, CHOOSE m \in set : \A j \in set : j <= m)

RECURSIVE NatOfInt(_)
NatOfInt(n) == IF n = 0 THEN <<>> ELSE <<n % Base>> \o NatOfInt(n \div Base)

RECURSIVE NatToInt(_)
NatToInt(a) == IF a = <<>> THEN 0 ELSE Head(a) + Base * NatToInt(Tail(a))

\* Limbs s[1..n] that may each be up to 2 * Base - 2 brought below Base: a
\* carry leaves limb i when some limb j <= i is Base or more and every limb
\* between them is Base - 1.
NatCarry(s, n) ==
    LET t == SubSeq(s, 1, n)
        carry(i) == \E j \in 1..i : t[j] >= Base /\ \A k \in (j + 1)..i : t[k] = Base - 1
    IN NatNorm([i \in 1..(n + 1) |->
                   (Limb(t, i) + (IF i > 1 /\ carry(i - 1) THEN 1 ELSE 0)) % Base],
               n + 1)

NatAdd(a, b) ==
    NatCarry([i \in 1..Max(Len(a), Len(b)) |-> Limb(a, i) + Limb(b, i)],
             Max(Len(a), Len(b)))

\* a - b for a >= b: a borrow leaves limb i when some limb j <= i of a is
\* less than that of b and every limb between them is equal.
NatSub(a, b) ==
    LET borrow(i) ==
            \E j \in 1..i : a[j] < Limb(b, j) /\ \A k \in (j + 1)..i : a[k] = Limb(b, k)
    IN NatNorm([i \in 1..Len(a) |->
                   (a[i] - Limb(b, i) - (IF i > 1 /\ borrow(i - 1) THEN 1 ELSE 0)) % Base],
               Len(a))

\* -1, 0, 1 as a < b, a = b, a > b
NatCmp(a, b) ==
    IF Len(a) < Len(b) THEN -1
    ELSE IF Len(a) > Len(b) THEN 1
    ELSE LET set == {i \in 1..Len(a) : a[i] # b[i]} IN
         IF set = {} THEN 0
         ELSE LET m == CHOOSE m \in set : \A j \in set : j <= m IN
              IF a[m] < b[m] THEN -1 ELSE 1

\* a * k for 0 <= k < Base
NatMulSmall(a, k) ==
    NatCarry([i \in 1..(Len(a) + 1) |->
                 ((Limb(a, i) * k) % Base) + ((Limb(a, i - 1) * k) \div Base)],
             Len(a) + 1)

\* a * Base^n
NatShiftLimbs(a, n) ==
    IF a = <<>> THEN <<>> ELSE [i \in 1..n |-> 0] \o a

RECURSIVE NatMul(_, _)
\* a * b: the lower half of the limbs of a times b, and the upper half times
\* b moved up by as many limbs as the lower half has.
NatMul(a, b) ==
    IF a = <<>> THEN <<>>
    ELSE IF Len(a) = 1 THEN NatMulSmall(b, a[1])
    ELSE LET h == Len(a) \div 2
             low == NatMul(NatNorm(a, h), b)
             high == NatMul(SubSeq(a, h + 1, Len(a)), b)
         IN IF low = <<>> THEN NatShiftLimbs(high, h)
            ELSE IF high = <<>> THEN low
            ELSE NatAdd(low, NatShiftLimbs(high, h))

\* a * 2^n
NatShl(a, n) == NatShiftLimbs(NatMulSmall(a, 2 ^ (n % 15)), n \div 15)

\* a \div 2^n
NatShr(a, n) ==
    LET w == n \div 15
        k == n % 15
    IN NatNorm([i \in 1..Max(Len(a) - w, 0) |->
                   (Limb(a, i + w) \div 2 ^ k) + (Limb(a, i + w + 1) % 2 ^ k) * 2 ^ (15 - k)],
               Max(Len(a) - w, 0))

RECURSIVE BitLenSmall(_)
BitLenSmall(n) == IF n = 0 THEN 0 ELSE 1 + BitLenSmall(n \div 2)

\* The number of bits of a: 2^(NatBitLen(a) - 1) <= a < 2^NatBitLen(a).
NatBitLen(a) == IF a = <<>> THEN 0 ELSE 15 * (Len(a) - 1) + BitLenSmall(a[Len(a)])

\* Bit i of a (bit 0 is the least significant).
NatBit(a, i) == (Limb(a, i \div 15 + 1) \div 2 ^ (i % 15)) % 2

\* 2 * a + bit: each limb is doubled and takes the top bit of the limb
\* below it.
NatDouble(a, bit) ==
    NatNorm([i \in 1..(Len(a) + 1) |->
                ((2 * Limb(a, i)) % Base)
                   + (IF i = 1 THEN bit ELSE Limb(a, i - 1) \div (Base \div 2))],
            Len(a) + 1)

\* One step of long division: bit i of n is taken into the remainder, and d
\* is taken off it when it fits.
NatDivModBit(n, d, i, qr) ==
    LET r2 == NatDouble(qr.r, NatBit(n, i)) IN
    IF NatCmp(r2, d) >= 0
    THEN [q |-> NatDouble(qr.q, 1), r |-> NatSub(r2, d)]
    ELSE [q |-> NatDouble(qr.q, 0), r |-> r2]

RECURSIVE NatDivModBits(_, _, _, _, _)
\* Long division over the bits hi - 1 down to lo of n, the upper half of
\* them before the lower: qr holds the quotient and the remainder of the
\* bits already taken, and the remainder stays below d.
NatDivModBits(n, d, hi, lo, qr) ==
    IF hi = lo THEN qr
    ELSE IF hi = lo + 1 THEN NatDivModBit(n, d, lo, qr)
    ELSE LET upper == NatDivModBits(n, d, hi, (hi + lo) \div 2, qr) IN
         IF upper.r # d
         THEN NatDivModBits(n, d, (hi + lo) \div 2, lo, upper)
         ELSE upper

\* n \div d and n % d for d > 0.  The top bits of n, one fewer than d has,
\* are less than d and go to the remainder at once.
NatDivMod(n, d) ==
    IF NatBitLen(n) < NatBitLen(d) THEN [q |-> <<>>, r |-> n]
    ELSE LET rest == NatBitLen(n) - NatBitLen(d) + 1 IN
         NatDivModBits(n, d, rest, 0, [q |-> <<>>, r |-> NatShr(n, rest)])

RECURSIVE NatPow(_, _)
\* b^k for 0 < b < Base, by squaring b^(k \div 2).
NatPow(b, k) ==
    IF k = 0 THEN <<1>>
    ELSE LET h == NatPow(b, k \div 2) IN
         IF h = <<>> THEN <<>>
         ELSE IF k % 2 = 0 THEN NatMul(h, h) ELSE NatMulSmall(NatMul(h, h), b)

\* ----------------------------------------------------------------- doubles
\* A double: NaN, an infinity, or (-1)^neg * m * 2^e with m < 2^53, where
\* m >= 2^52 (normal, -1074 <= e <= 971) or e = -1074 (subnormal and zero).
F64(neg, m, e) == [kind |-> "finite", neg |-> neg, m |-> m, e |-> e]
F64NaN == [kind |-> "nan", neg |-> FALSE, m |-> <<>>, e |-> 0]
F64Infinity(neg) == [kind |-> "infinity", neg |-> neg, m |-> <<>>, e |-> 0]
F64Zero(neg) == F64(neg, <<>>, -1074)

\* The exponent of the double nearest n / d (n, d > 0): with
\* 2^k <= n / d < 2^(k + 1), k - 52, and -1074 for a subnormal result.
F64Exponent(n, d) ==
    LET bn == NatBitLen(n)
        bd == NatBitLen(d)
        k == IF bn >= bd
             THEN (IF NatCmp(n, NatShl(d, bn - bd)) >= 0 THEN bn - bd ELSE bn - bd - 1)
             ELSE (IF NatCmp(NatShl(n, bd - bn), d) >= 0 THEN bn - bd ELSE bn - bd - 1)
    IN Max(k - 52, -1074)

\* The quotient qr.q of a division by den, rounded to nearest by the
\* remainder qr.r, ties to the even quotient; an exact quotient is itself.
F64Nearest(qr, den) ==
    IF qr.r = <<>> THEN qr.q
    ELSE LET half == NatCmp(NatDouble(qr.r, 0), den) IN
         IF half > 0 \/ (half = 0 /\ NatBit(qr.q, 0) = 1) THEN NatAdd(qr.q, <<1>>)
         ELSE qr.q

\* The double (-1)^neg * m * 2^e of a rounded significand m <= 2^53: 2^53
\* is 2^52 at the next exponent, and beyond the largest exponent is an
\* infinity.
F64Normal(neg, m, e) ==
    IF m = <<>> THEN F64Zero(neg)
    ELSE IF NatBitLen(m) = 54
    THEN (IF e + 1 > 971 THEN F64Infinity(neg) ELSE F64(neg, NatShr(m, 1), e + 1))
    ELSE IF e > 971 THEN F64Infinity(neg)
    ELSE F64(neg, m, e)

\* n / d rounded to a multiple of 2^e.
F64RoundAt(neg, n, d, e) ==
    LET den == IF e > 0 THEN NatShl(d, e) ELSE d IN
    F64Normal(neg, F64Nearest(NatDivMod(IF e < 0 THEN NatShl(n, -e) ELSE n, den), den), e)

\* The double nearest n / d (n, d naturals, d > 0), ties to the even
\* significand: IEEE-754 round-to-nearest of an exact result.
F64Round(neg, n, d) ==
    IF n = <<>> THEN F64Zero(neg) ELSE F64RoundAt(neg, n, d, F64Exponent(n, d))

\* An integer 0 <= n < 2^31 as a double: it has at most 53 bits, so the
\* double is exact, its bits moved up to make the significand 53 bits long.
F64OfInt(n) ==
    IF n = 0 THEN F64Zero(FALSE)
    ELSE F64(FALSE, NatShl(NatOfInt(n), 53 - BitLenSmall(n)), BitLenSmall(n) - 53)

\* x / y for finite x and finite y # 0
F64Div(x, y) ==
    IF x.m = <<>> \/ y.m = <<>> THEN F64Zero(x.neg # y.neg)
    ELSE F64Round(x.neg # y.neg,
                  IF x.e >= y.e THEN NatShl(x.m, x.e - y.e) ELSE x.m,
                  IF y.e > x.e THEN NatShl(y.m, y.e - x.e) ELSE y.m)

\* x * y for finite x and y
F64Mul(x, y) ==
    IF x.m = <<>> \/ y.m = <<>> THEN F64Zero(x.neg # y.neg)
    ELSE F64Round(x.neg # y.neg,
                  IF x.e + y.e >= 0 THEN NatShl(NatMul(x.m, y.m), x.e + y.e)
                  ELSE NatMul(x.m, y.m),
                  IF x.e + y.e < 0 THEN NatShl(<<1>>, -(x.e + y.e)) ELSE <<1>>)

\* x <= y for finite x >= 0 and y >= 0
F64LessEq(x, y) ==
    IF x.e >= y.e THEN NatCmp(NatShl(x.m, x.e - y.e), y.m) <= 0
    ELSE NatCmp(x.m, NatShl(y.m, y.e - x.e)) <= 0

\* Math.ceil(x) for finite x >= 0, as a natural number: for a negative
\* exponent, (m + 2^-e - 1) \div 2^-e.
MathCeil(x) ==
    IF x.e >= 0 THEN NatShl(x.m, x.e)
    ELSE NatShr(NatAdd(x.m, NatSub(NatShl(<<1>>, -x.e), <<1>>)), -x.e)

\* ------------------------------------------------------------- strings
\* A string the code takes apart is a sequence of tokens.  A token is one
\* character, a code point written "<U+XXXX>", or a run of characters that
\* holds no white space and is kept whole (an address, a signature).  The
\* values of X402_PRICE_USD and X402_DEV_BYPASS are sequences of characters.

\* WhiteSpace and LineTerminator of ECMAScript: what trim() and Number()
\* strip.
WhiteSpace ==
    {" ", "\t", "\n", "\r", "\f", "<U+000B>", "<U+00A0>", "<U+FEFF>", "<U+1680>",
     "<U+2000>", "<U+2001>", "<U+2002>", "<U+2003>", "<U+2004>", "<U+2005>",
     "<U+2006>", "<U+2007>", "<U+2008>", "<U+2009>", "<U+200A>", "<U+2028>",
     "<U+2029>", "<U+202F>", "<U+205F>", "<U+3000>"}

\* s from its first token that is not white space on.
TrimLeft(s) ==
    LET set == {i \in 1..Len(s) : s[i] \notin WhiteSpace} IN
    IF set = {} THEN <<>>
    ELSE SubSeq(s, CHOOSE m \in set : \A j \in set : m <= j, Len(s))

\* s up to its last token that is not white space.
TrimRight(s) ==
    LET set == {i \in 1..Len(s) : s[i] \notin WhiteSpace} IN
    IF set = {} THEN <<>>
    ELSE SubSeq(s, 1, CHOOSE m \in set : \A j \in set : j <= m)

\* Alternative: the header value is used as it came, untrimmed.
TrimNone(s) == s

\* String.prototype.trim
Trim(s) == TrimRight(TrimLeft(s))

RECURSIVE Join(_)
\* The string a token sequence stands for.
Join(s) == IF s = <<>> THEN "" ELSE Head(s) \o Join(Tail(s))

\* The lower-case letter of an upper-case letter.
LowerCaseOf ==
    [c \in {"A", "B", "C", "D", "E", "F", "G", "H", "I", "J", "K", "L", "M", "N",
            "O", "P", "Q", "R", "S", "T", "U", "V", "W", "X", "Y", "Z"} |->
        CASE c = "A" -> "a" [] c = "B" -> "b" [] c = "C" -> "c" [] c = "D" -> "d"
          [] c = "E" -> "e" [] c = "F" -> "f" [] c = "G" -> "g" [] c = "H" -> "h"
          [] c = "I" -> "i" [] c = "J" -> "j" [] c = "K" -> "k" [] c = "L" -> "l"
          [] c = "M" -> "m" [] c = "N" -> "n" [] c = "O" -> "o" [] c = "P" -> "p"
          [] c = "Q" -> "q" [] c = "R" -> "r" [] c = "S" -> "s" [] c = "T" -> "t"
          [] c = "U" -> "u" [] c = "V" -> "v" [] c = "W" -> "w" [] c = "X" -> "x"
          [] c = "Y" -> "y" [] c = "Z" -> "z"]

\* String.prototype.toLowerCase of a sequence of characters.
toLowerCase(s) ==
    SubSeq([i \in 1..Len(s) |->
               IF s[i] \in DOMAIN LowerCaseOf THEN LowerCaseOf[s[i]] ELSE s[i]],
           1, Len(s))

\* ----------------------------------------------------------------- Number()
\* The value of a digit in hexadecimal (and so in every radix up to 16).
DigitValue(c) ==
    CASE c = "0" -> 0 [] c = "1" -> 1 [] c = "2" -> 2 [] c = "3" -> 3 [] c = "4" -> 4
      [] c = "5" -> 5 [] c = "6" -> 6 [] c = "7" -> 7 [] c = "8" -> 8 [] c = "9" -> 9
      [] c \in {"a", "A"} -> 10 [] c \in {"b", "B"} -> 11 [] c \in {"c", "C"} -> 12
      [] c \in {"d", "D"} -> 13 [] c \in {"e", "E"} -> 14 [] c \in {"f", "F"} -> 15
      [] OTHER -> 16

\* The first position from i on where s has no digit of the radix.
SpanEnd(s, i, radix) ==
    LET set == {j \in i..Len(s) : DigitValue(s[j]) >= radix} IN
    IF set = {} THEN Max(i, Len(s) + 1) ELSE CHOOSE m \in set : \A j \in set : m <= j

RECURSIVE DigitsToNat(_, _)
\* The number that digits write in the radix: the number of their first
\* half, times the radix for each digit of the second half, and the number
\* of the second half.
DigitsToNat(digits, radix) ==
    IF digits = <<>> THEN <<>>
    ELSE IF Len(digits) = 1 THEN NatOfInt(DigitValue(digits[1]))
    ELSE LET h == Len(digits) \div 2
             upper == DigitsToNat(SubSeq(digits, 1, h), radix)
             lower == DigitsToNat(SubSeq(digits, h + 1, Len(digits)), radix)
         IN IF upper = <<>> THEN lower
            ELSE IF lower = <<>> THEN NatMul(upper, NatPow(radix, Len(digits) - h))
            ELSE NatAdd(NatMul(upper, NatPow(radix, Len(digits) - h)), lower)

RECURSIVE DigitsToExponent(_, _, _)
\* The exponent that digits write, or limit when it is larger than that.
DigitsToExponent(digits, acc, limit) ==
    IF digits = <<>> THEN acc
    ELSE LET x == acc * 10 + DigitValue(Head(digits)) IN
         DigitsToExponent(Tail(digits), IF x > limit THEN limit ELSE x, limit)

RECURSIVE StripZeros(_)
StripZeros(digits) ==
    IF digits # <<>> /\ Head(digits) = "0" THEN StripZeros(Tail(digits)) ELSE digits

\* The double of a decimal literal: digits * 10^exp10.  A value of 10^309 or
\* more is beyond every double, one below 10^-324 is nearer 0 than the least
\* double; between them the exact value is rounded.
DecimalToF64(neg, digits, exp10) ==
    LET significant == StripZeros(digits) IN
    IF significant = <<>> THEN F64Zero(neg)
    ELSE IF Len(significant) - 1 + exp10 >= 309 THEN F64Infinity(neg)
    ELSE IF Len(significant) + exp10 <= -324 THEN F64Zero(neg)
    ELSE F64Round(neg,
            NatMul(DigitsToNat(significant, 10),
                   NatPow(10, IF exp10 > 0 THEN exp10 ELSE 0)),
            NatPow(10, IF exp10 < 0 THEN -exp10 ELSE 0))

\* The value of a literal whose digits and exponent part are known: the
\* exponent digits are s[x1..c - 1], and the literal must end where they end.
\* The literal has fewer than Len(s) digits, so every exponent of Len(s) + 400
\* or more gives the double that Len(s) + 400 gives (an infinity, or a zero
\* when it is negative or the digits are all 0): the exponent is read up to
\* there.
StrLiteralValue(neg, s, digits, nfrac, hasExp, expNeg, x1, c) ==
    IF hasExp /\ c = x1 THEN F64NaN
    ELSE IF c # Len(s) + 1 THEN F64NaN
    ELSE DecimalToF64(neg, digits,
            (IF expNeg THEN -1 ELSE 1)
               * DigitsToExponent(IF hasExp THEN SubSeq(s, x1, c - 1) ELSE <<>>, 0,
                                  Len(s) + 400)
            - nfrac)

\* ExponentPart of a literal whose digits end before position b: e or E, a
\* sign or none, digits.
StrExponentPart(neg, s, digits, nfrac, b) ==
    LET n == Len(s)
        hasExp == b <= n /\ s[b] \in {"e", "E"}
        x1 == IF b + 1 <= n /\ s[b + 1] \in {"+", "-"} THEN b + 2 ELSE b + 1
    IN StrLiteralValue(neg, s, digits, nfrac, hasExp,
                       hasExp /\ b + 1 <= n /\ s[b + 1] = "-", x1,
                       IF hasExp THEN SpanEnd(s, x1, 10) ELSE b)

\* The fraction of a literal whose integer digits are s[i1..a - 1], which are
\* followed by a dot and the digits s[a + 1..b - 1] or by neither (b = a).
StrFractionPart(neg, s, i1, a, b) ==
    IF (a - i1) + (IF b > a THEN b - a - 1 ELSE 0) = 0 THEN F64NaN
    ELSE StrExponentPart(neg, s,
            SubSeq(s, i1, a - 1) \o (IF b > a THEN SubSeq(s, a + 1, b - 1) ELSE <<>>),
            IF b > a THEN b - a - 1 ELSE 0, b)

\* The integer digits of a literal end before position a.
StrIntegerPart(neg, s, i1, a) ==
    StrFractionPart(neg, s, i1, a,
                    IF a <= Len(s) /\ s[a] = "." THEN SpanEnd(s, a + 1, 10) ELSE a)

\* StrDecimalLiteral of ECMAScript from position i1 of s (after the sign).
StrDecimalLiteral(neg, s, i1) ==
    IF SubSeq(s, i1, Len(s)) = <<"I", "n", "f", "i", "n", "i", "t", "y">>
    THEN F64Infinity(neg)
    ELSE StrIntegerPart(neg, s, i1, SpanEnd(s, i1, 10))

\* StringToNumber of ECMAScript for a string stripped of white space: the
\* empty string is 0, a 0x / 0o / 0b literal is an integer, anything that is
\* no numeric literal is NaN.
StringToNumber(s) ==
    LET n == Len(s)
        radix == IF n >= 2 /\ s[1] = "0"
                 THEN (IF s[2] \in {"x", "X"} THEN 16
                       ELSE IF s[2] \in {"o", "O"} THEN 8
                       ELSE IF s[2] \in {"b", "B"} THEN 2 ELSE 10)
                 ELSE 10
    IN
    IF n = 0 THEN F64Zero(FALSE)
    ELSE IF radix # 10
    THEN (IF n >= 3 /\ SpanEnd(s, 3, radix) = n + 1
          THEN F64Round(FALSE, DigitsToNat(SubSeq(s, 3, n), radix), <<1>>)
          ELSE F64NaN)
    ELSE StrDecimalLiteral(s[1] = "-", s, IF s[1] \in {"+", "-"} THEN 2 ELSE 1)

\* Number(v) of a string.
Number(v) == StringToNumber(Trim(v))

\* Number.prototype.toFixed(4) of a finite x with 0 <= x < 10^21: the
\* integer n for which n / 10^4 is nearest x, the larger one of two, written
\* with four decimals.  For a negative exponent n is
\* (2 * m * 10^4 + 2^-e) \div 2^(1 - e).
toFixed4F64(x) ==
    LET scaled == NatMulSmall(x.m, 10000)
        n == NatToInt(IF x.e >= 0 THEN NatShl(scaled, x.e)
                      ELSE NatShr(NatAdd(NatMulSmall(scaled, 2), NatShl(<<1>>, -x.e)),
                                  1 - x.e))
        frac == n % 10000
    IN ToString(n \div 10000) \o "."
         \o ToString(frac \div 1000) \o ToString((frac \div 100) % 10)
         \o ToString((frac \div 10) % 10) \o ToString(frac % 10)

\* The double of a rate held in cents: the one nearest cents / 100.
F64OfCents(cents) == F64Round(FALSE, NatOfInt(cents), NatOfInt(100))

\* usdToLamports as the code computes it: Math.max(1, Math.ceil(usd / solUsd * 1e9)).
usdToLamportsF64(usd, solUsd) ==
    LET sol == F64Div(usd, F64OfCents(solUsd))
        lamports == MathCeil(F64Mul(sol, F64OfInt(1000000000)))
    IN Max(1, NatToInt(lamports))

\* ------------------------------------------------------------ transactions
\* A parsed instruction as getParsedTransaction reports it.
Ix(program, type, destination, lamports) ==
    [program |-> program, type |-> type, destination |-> destination,
     lamports |-> lamports]

\* Alternative: every system transfer is credited, whatever its destination.
SumVerifyAnyDest(instructions, treasury) ==
    LET f[i \in 0..Len(instructions)] ==
            IF i = 0 THEN 0
            ELSE LET ix == instructions[i] IN
                 IF ix.program = "system" /\ ix.type = "transfer"
                 THEN f[i - 1] + ix.lamports ELSE f[i - 1]
    IN f[Len(instructions)]

\* The loop of verifySolPayment: paidLamports after the first i instructions.
SumVerify(instructions, treasury) ==
    LET f[i \in 0..Len(instructions)] ==
            IF i = 0 THEN 0
            ELSE LET ix == instructions[i] IN
                 IF ix.program # "system" \/ ix.type # "transfer" THEN f[i - 1]
                 ELSE IF ix.destination = "" THEN f[i - 1]
                 ELSE IF ix.destination = toBase58(treasury)
                      THEN f[i - 1] + ix.lamports
                      ELSE f[i - 1]
    IN f[Len(instructions)]

\* Alternative: the destination test is missing from the loop.
SumSettleAnyDest(instructions, treasuryAddress) ==
    LET f[i \in 0..Len(instructions)] ==
            IF i = 0 THEN 0
            ELSE LET ix == instructions[i] IN
                 IF ix.program # "system" \/ ix.type # "transfer" THEN f[i - 1]
                 ELSE f[i - 1] + ix.lamports
    IN f[Len(instructions)]

\* The loop of settleAndVerifyPayment: paid after the first i instructions.
SumSettle(instructions, treasuryAddress) ==
    LET f[i \in 0..Len(instructions)] ==
            IF i = 0 THEN 0
            ELSE LET ix == instructions[i] IN
                 IF ix.program # "system" \/ ix.type # "transfer" THEN f[i - 1]
                 ELSE IF ix.destination = treasuryAddress
                      THEN f[i - 1] + ix.lamports
                      ELSE f[i - 1]
    IN f[Len(instructions)]

\* getParsedTransaction's answer: null, or the parsed transaction.
NoTx == [found |-> FALSE, err |-> FALSE, instructions |-> <<>>, accountKeys |-> <<>>]

ParsedTx(err, instructions, accountKeys) ==
    [found |-> TRUE, err |-> err, instructions |-> instructions,
     accountKeys |-> accountKeys]

\* ------------------------------------------------------- verifier results
\* PaymentCheckResult / VerifyResult, with the fields of both variants.
Rejected(reason) ==
    [ok |-> FALSE, reason |-> reason, sig |-> "", paid |-> 0, payer |-> Undefined,
     paidTo |-> ""]

Verified(sig, paid, payer, paidTo) ==
    [ok |-> TRUE, reason |-> "", sig |-> sig, paid |-> paid, payer |-> payer,
     paidTo |-> paidTo]

NoResult == Rejected("<no verifier ran>")

\* verifySolPayment before its RPC call: "call" when it goes on to
\* getParsedTransaction, otherwise the result it returns at once.
verifySolPaymentPre(treasuryAddress, txSignature) ==
    IF Trim(txSignature) = <<>>
    THEN [call |-> FALSE, result |-> Rejected("missing tx signature")]
    ELSE IF ~PublicKeyOk(treasuryAddress)
    THEN [call |-> FALSE, result |-> Rejected("invalid treasury address")]
    ELSE [call |-> TRUE, result |-> NoResult]

\* Alternative: the comparison is strict (paid <= required is rejected).
verifySolPaymentPostStrict(tx, treasuryAddress, sig, requiredLamports) ==
    IF ~tx.found THEN Rejected("transaction not found (yet)")
    ELSE IF tx.err THEN Rejected("transaction failed")
    ELSE LET paidLamports == SumVerify(tx.instructions, treasuryAddress) IN
         IF paidLamports <= requiredLamports
         THEN Rejected("insufficient payment: paid " \o ToString(paidLamports)
                       \o " lamports, require " \o ToString(requiredLamports))
         ELSE Verified(sig, paidLamports, Undefined, toBase58(treasuryAddress))

\* Alternative: the amount is checked before the execution error.
verifySolPaymentPostAmountFirst(tx, treasuryAddress, sig, requiredLamports) ==
    IF ~tx.found THEN Rejected("transaction not found (yet)")
    ELSE LET paidLamports == SumVerify(tx.instructions, treasuryAddress) IN
         IF paidLamports < requiredLamports
         THEN Rejected("insufficient payment: paid " \o ToString(paidLamports)
                       \o " lamports, require " \o ToString(requiredLamports))
         ELSE IF tx.err THEN Rejected("transaction failed")
         ELSE Verified(sig, paidLamports, Undefined, toBase58(treasuryAddress))

\* verifySolPayment after getParsedTransaction returned tx.
verifySolPaymentPost(tx, treasuryAddress, sig, requiredLamports) ==
    IF ~tx.found THEN Rejected("transaction not found (yet)")
    ELSE IF tx.err THEN Rejected("transaction failed")
    ELSE LET paidLamports == SumVerify(tx.instructions, treasuryAddress) IN
         IF paidLamports < requiredLamports
         THEN Rejected("insufficient payment: paid " \o ToString(paidLamports)
                       \o " lamports, require " \o ToString(requiredLamports))
         ELSE Verified(sig, paidLamports, Undefined, toBase58(treasuryAddress))

\* settleAndVerifyPayment before its first RPC call: an empty buffer is
\* rejected at once, anything else is sent.
settleAndVerifyPaymentPre(signedTxBase64) ==
    IF signedTxBase64.bytes = "empty"
    THEN [call |-> FALSE, result |-> Rejected("empty transaction")]
    ELSE [call |-> TRUE, result |-> NoResult]

\* VersionedTransaction.deserialize(raw).signatures[0], "" when it throws.
DeserializeSig(blob) == IF blob.bytes = "tx" THEN blob.sig ELSE ""

\* Alternative: a failed submission is final, the bytes are not deserialized.
settleAndVerifyPaymentSigNoRecovery(blob, sent) == sent

\* settleAndVerifyPayment's sig after sendRawTransaction: the signature the
\* node returned (sent), or when the call threw (sent = "") the first
\* signature of the deserialized bytes; "" stands for null.
settleAndVerifyPaymentSig(blob, sent) ==
    IF sent # "" THEN sent ELSE DeserializeSig(blob)

\* Alternative: the comparison is strict (paid <= required is rejected).
settleAndVerifyPaymentPostStrict(parsed, sig, requiredLamports, treasuryAddress) ==
    IF ~parsed.found THEN Rejected("transaction not found/confirmed yet")
    ELSE IF parsed.err THEN Rejected("transaction failed")
    ELSE LET paid == SumSettle(parsed.instructions, treasuryAddress) IN
         IF paid <= requiredLamports
         THEN Rejected("insufficient payment: paid=" \o ToString(paid)
                       \o " require=" \o ToString(requiredLamports))
         ELSE Verified(sig, paid,
                       IF parsed.accountKeys = <<>> THEN Undefined
                       ELSE toBase58(parsed.accountKeys[1]), "")

\* settleAndVerifyPayment after getParsedTransaction returned parsed.
settleAndVerifyPaymentPost(parsed, sig, requiredLamports, treasuryAddress) ==
    IF ~parsed.found THEN Rejected("transaction not found/confirmed yet")
    ELSE IF parsed.err THEN Rejected("transaction failed")
    ELSE LET paid == SumSettle(parsed.instructions, treasuryAddress) IN
         IF paid < requiredLamports
         THEN Rejected("insufficient payment: paid=" \o ToString(paid)
                       \o " require=" \o ToString(requiredLamports))
         ELSE Verified(sig, paid,
                       IF parsed.accountKeys = <<>> THEN Undefined
                       ELSE toBase58(parsed.accountKeys[1]), "")

\* ------------------------------------------------------------ proof headers
\* A signed-transaction blob (payload.transaction, base64): its bytes are
\* empty, not a transaction, or the transaction whose first signature is sig.
Blob(bytes, sig) == [bytes |-> bytes, sig |-> sig]
EmptyBlob == Blob("empty", "")
JunkBlob == Blob("junk", "")

\* The value of an X-PAYMENT (or PAYMENT-SIGNATURE) header: absent (""), a
\* string that is not base64 of JSON, or base64(JSON(payload)).
NoHeader == [kind |-> "absent", hasTransaction |-> FALSE, transaction |-> EmptyBlob]
NotJsonHeader == [kind |-> "notjson", hasTransaction |-> FALSE, transaction |-> EmptyBlob]
JsonHeader(hasTransaction, transaction) ==
    [kind |-> "json", hasTransaction |-> hasTransaction, transaction |-> transaction]

\* SolPaymentPayloadSchema.safeParse(parsed).success
SolPaymentPayloadSchemaOk(parsed) == parsed.hasTransaction

ParsedPaymentFail(reason) == [ok |-> FALSE, reason |-> reason, txBase64 |-> EmptyBlob]
ParsedPaymentOk(tx) == [ok |-> TRUE, reason |-> "", txBase64 |-> tx]

\* extractPaymentFromHeaders
extractPaymentFromHeaders(headers) ==
    LET raw == IF headers.xPayment.kind # "absent" THEN headers.xPayment
               ELSE headers.paymentSignature IN
    IF raw.kind = "absent" THEN ParsedPaymentFail("missing X-PAYMENT header")
    ELSE IF raw.kind = "notjson" THEN ParsedPaymentFail("Unexpected token in JSON")
    ELSE IF ~SolPaymentPayloadSchemaOk(raw) THEN ParsedPaymentFail("invalid payment payload")
    ELSE ParsedPaymentOk(raw.transaction)

\* ------------------------------------------------------------ environments
\* The value of an environment variable is the sequence of its characters
\* (for X402_TREASURY_ADDRESS: white space one character at a time, an
\* address as one token); a variable that is not set holds Unset.
Unset == <<Undefined>>

\* The process.env under which the verifiers are examined.
PayEnv ==
    [SOLANA_RPC_URL |-> "https://rpc", X402_TREASURY_ADDRESS |-> <<TreasuryAddr>>,
     X402_PRICE_USD |-> Unset, X402_DEV_BYPASS |-> <<"f", "a", "l", "s", "e">>,
     SOL_NETWORK |-> "solana"]

\* process.env of the protocol runs.
Envs ==
    [SOLANA_RPC_URL : {"https://rpc"},
     X402_TREASURY_ADDRESS : {Unset, <<>>, <<TreasuryAddr>>, <<InvalidAddr>>},
     X402_PRICE_USD : {Unset},
     X402_DEV_BYPASS : {<<"f", "a", "l", "s", "e">>, <<"T", "R", "U", "e">>},
     SOL_NETWORK : {"solana"}]
    \cup
    [SOLANA_RPC_URL : {Undefined, "https://rpc"},
     X402_TREASURY_ADDRESS : {<<TreasuryAddr>>},
     X402_PRICE_USD : {Unset, <<"0">>},
     X402_DEV_BYPASS : {Unset, <<"t", "r", "u", "e">>},
     SOL_NETWORK : {"solana"}]
    \cup
    [SOLANA_RPC_URL : {"https://rpc"},
     X402_TREASURY_ADDRESS : {<<TreasuryAddr>>},
     X402_PRICE_USD : {<<"0", ".", "2", "5">>},
     X402_DEV_BYPASS : {Unset},
     SOL_NETWORK : {"solana-devnet"}]

\* X402_PRICE_USD settings for the conversion: unset, 0.01, 0.10, 0.25,
\* 0.50 and 0.99.
QuotePrices ==
    {Unset, <<"0", ".", "0", "1">>, <<"0", ".", "1", "0">>, <<"0", ".", "2", "5">>,
     <<"0", ".", "5", "0">>, <<"0", ".", "9", "9">>}

QuoteEnvs ==
    [SOLANA_RPC_URL : {"https://rpc"}, X402_TREASURY_ADDRESS : {<<TreasuryAddr>>},
     X402_PRICE_USD : QuotePrices, X402_DEV_BYPASS : {<<"f", "a", "l", "s", "e">>},
     SOL_NETWORK : {"solana"}]

\* The treasury settings under which the two verifiers are compared.
BothEnvs == {PayEnv, [PayEnv EXCEPT !.X402_TREASURY_ADDRESS = <<InvalidAddr>>]}

\* SOL/USD rates the price endpoint reports, in cents: 250.00 and 125.00 in
\* the protocol runs, more for the conversion.
OracleRates == {25000, 12500}

QuoteRates ==
    {1920, 3840, 7680, 9999, 12500, 14286, 15360, 18723, 20000, 25000, 33333,
     40000, 390625}

\* ------------------------------------------------------------ configuration
\* The default of X402_PRICE_USD: the double 0.25, which is 2^52 * 2^-54.
DEFAULT_PRICE_USD == F64(FALSE, NatShl(<<1>>, 52), -54)

\* z.number().finite().positive().max(100): a number (not NaN) that is
\* finite, above 0 and at most 100.
PriceSchema(x) ==
    x.kind = "finite" /\ ~x.neg /\ x.m # <<>> /\ F64LessEq(x, F64OfInt(100))

\* What EnvSchema makes of e when the transform of X402_PRICE_USD gave
\* price; ok = FALSE when parse throws.
EnvSchemaOutput(e, price) ==
    [ok |-> /\ e.SOLANA_RPC_URL # Undefined
            /\ e.SOLANA_RPC_URL # ""
            /\ PriceSchema(price),
     SOLANA_RPC_URL |-> e.SOLANA_RPC_URL,
     X402_TREASURY_ADDRESS |->
        IF e.X402_TREASURY_ADDRESS = Unset THEN ""
        ELSE Join(Trim(e.X402_TREASURY_ADDRESS)),
     X402_PRICE_USD |-> price,
     X402_DEV_BYPASS |->
        toLowerCase(IF e.X402_DEV_BYPASS = Unset THEN <<"f", "a", "l", "s", "e">>
                    ELSE e.X402_DEV_BYPASS) = <<"t", "r", "u", "e">>]

\* EnvSchema.parse(e).  The price is the default when the variable is unset
\* and else the double Number(v).
EnvSchemaParse(e) ==
    EnvSchemaOutput(e, IF e.X402_PRICE_USD = Unset THEN DEFAULT_PRICE_USD
                       ELSE Number(e.X402_PRICE_USD))

\* The entry of a table of pairs <<key, value>> for key, or otherwise when
\* the table has none.
TableRead(table, key, otherwise) ==
    IF \E t \in table : t[1] = key THEN (CHOOSE t \in table : t[1] = key)[2]
    ELSE otherwise

\* The environments of the runs, and what EnvSchema.parse makes of each.
RunEnvs == Envs \cup QuoteEnvs \cup BothEnvs \cup {PayEnv}

ParsedEnvs == {<<e, EnvSchemaParse(e)>> : e \in RunEnvs}

\* readX402ConfigFromEnv: EnvSchema.parse(e), read from ParsedEnvs for an
\* environment of the runs.
readX402ConfigFromEnv(e) == TableRead(ParsedEnvs, e, EnvSchemaParse(e))

\* The prices and the rates of the runs, and the lamports of each pair.
RunPrices == {p[2].X402_PRICE_USD : p \in {t \in ParsedEnvs : t[2].ok}}

RunRates == OracleRates \cup QuoteRates

RunLamports == {<<p, usdToLamportsF64(p[1], p[2])>> : p \in RunPrices \X RunRates}

\* usdToLamports, read from RunLamports for a price and a rate of the runs.
usdToLamports(usd, solUsd) ==
    TableRead(RunLamports, <<usd, solUsd>>, usdToLamportsF64(usd, solUsd))

\* What toFixed(4) writes for each price of the runs.
RunFixed == {<<p, toFixed4F64(p)>> : p \in RunPrices}

\* Number.prototype.toFixed(4), read from RunFixed for a price of the runs.
toFixed4(x) == TableRead(RunFixed, x, toFixed4F64(x))

\* TREASURY_ADDRESS of vendor/agentinc/lib/x402/config: it reads
\* X402_TREASURY_ADDRESS.
TREASURY_ADDRESS(e) ==
    IF e.X402_TREASURY_ADDRESS = Unset THEN "" ELSE Join(e.X402_TREASURY_ADDRESS)

\* SOL_NETWORK of vendor/agentinc/lib/x402/config.
SOL_NETWORK(e) == e.SOL_NETWORK

\* Alternative: an unset variable is stringified instead of defaulting to "".
getX402TreasuryAddressStringified(e) ==
    IF e.X402_TREASURY_ADDRESS = Unset THEN "undefined"
    ELSE Join(Trim(e.X402_TREASURY_ADDRESS))

\* What getX402TreasuryAddress gives when its EnvSchema.parse throws.
ZodError == "<throws ZodError>"

\* getX402TreasuryAddress: the vendor's address when there is one, else the
\* variable as the module's own schema parses it; the parse throws when
\* SOLANA_RPC_URL is unset or empty.
getX402TreasuryAddress(e) ==
    IF TREASURY_ADDRESS(e) # "" THEN TREASURY_ADDRESS(e)
    ELSE IF e.SOLANA_RPC_URL \in {Undefined, ""} THEN ZodError
    ELSE IF e.X402_TREASURY_ADDRESS = Unset THEN ""
    ELSE Join(Trim(e.X402_TREASURY_ADDRESS))

\* getX402Network
getX402Network(e) == SOL_NETWORK(e)

\* ------------------------------------------------------------------ quotes
\* buildAccepts
buildAccepts(env, lamports, resource, description, usdAmount, solPrice) ==
    [scheme |-> "exact",
     network |-> getX402Network(env),
     maxAmountRequired |-> ToString(lamports),
     asset |-> "native",
     payTo |-> getX402TreasuryAddress(env),
     resource |-> resource,
     description |-> description,
     maxTimeoutSeconds |-> MAX_TIMEOUT_SECONDS,
     extra |-> [usdAmount |-> toFixed4(usdAmount), solPrice |-> solPrice]]

\* create402Body: error ?? "Payment required".
create402Body(accepts, error) ==
    [x402Version |-> X402_VERSION,
     error |-> IF error = Undefined THEN "Payment required" ELSE error,
     accepts |-> <<accepts>>]

\* encodeBase64Json / decodeBase64Json: base64 of the JSON text of obj.
encodeBase64Json(obj) == [base64 |-> [json |-> obj]]
decodeBase64Json(value) == value.base64.json

\* --------------------------------------------------------------- responses
\* An HTTP response: status, the body's fields ("absent" / <<>> when the body
\* has no such field), and the X-Payment-Required header (<<>> when not set).
NoResponse ==
    [status |-> 0, ok |-> "absent", paid |-> "absent", bypass |-> "absent",
     x402Version |-> 0, error |-> "absent", reason |-> "absent",
     accepts |-> <<>>, payment |-> <<>>, payload |-> "absent",
     pricing |-> <<>>, xPaymentRequired |-> <<>>]

\* c.json({ok, paid:false, bypass:true, signal}) of /signals/daily
BypassResponse ==
    [NoResponse EXCEPT !.status = 200, !.ok = "true", !.paid = "false",
                       !.bypass = "true", !.payload = "signal"]

\* c.json({ok:false, error:"server not configured", ...}, 500)
UnconfiguredResponse ==
    [NoResponse EXCEPT !.status = 500, !.ok = "false",
        !.error = "server not configured",
        !.reason = "X402_TREASURY_ADDRESS is required when X402_DEV_BYPASS=false"]

\* c.json({ok:false, error:"pricing unavailable", ...}, 502)
PricingUnavailableResponse ==
    [NoResponse EXCEPT !.status = 502, !.ok = "false",
        !.error = "pricing unavailable",
        !.reason = "Failed to fetch SOL/USD price from upstream"]

\* Alternative: the header carries the quote alone, without the body's
\* version and error.
PaymentRequiredResponseQuoteHeader(body) ==
    [NoResponse EXCEPT !.status = 402, !.x402Version = body.x402Version,
        !.error = body.error, !.accepts = body.accepts,
        !.xPaymentRequired = <<encodeBase64Json(body.accepts[1])>>]

\* c.json(body, 402, {"X-Payment-Required": encodeBase64Json(body)})
PaymentRequiredResponse(body) ==
    [NoResponse EXCEPT !.status = 402, !.x402Version = body.x402Version,
        !.error = body.error, !.accepts = body.accepts,
        !.xPaymentRequired = <<encodeBase64Json(body)>>]

\* The 200 of /signals/daily after a verifier returned ok.
PaidResponse(transaction, paidLamports, payer, flow) ==
    [NoResponse EXCEPT !.status = 200, !.ok = "true", !.paid = "true",
        !.payment = <<[network |-> "solana", transaction |-> transaction,
                       paidLamports |-> ToString(paidLamports),
                       payer |-> payer, flow |-> flow]>>,
        !.payload = "signal"]

\* The 200 of /signals/polymarket/top: paid is !cfg.X402_DEV_BYPASS.
SignalsResponse(bypass) ==
    [NoResponse EXCEPT !.status = 200, !.ok = "true",
        !.paid = IF bypass THEN "false" ELSE "true", !.payload = "signals"]

\* A JSON number or null.
JsonNull == [null |-> TRUE, value |-> 0]
JsonNumber(n) == [null |-> FALSE, value |-> n]

\* The 200 of /x402/pricing: {ok: true, pricing: {usd, solUsd,
\* requiredLamports, treasury, ...}}; treasury is a string or "null".
PricingResponse(usd, solUsd, requiredLamports, treasury) ==
    [NoResponse EXCEPT !.status = 200, !.ok = "true",
        !.pricing = <<[usd |-> usd, solUsd |-> solUsd,
                       requiredLamports |-> requiredLamports,
                       treasury |-> treasury]>>]

\* What the framework answers when the handler throws.
ExceptionResponse ==
    [NoResponse EXCEPT !.status = 500, !.error = "Internal Server Error"]

\* ------------------------------------------------------------------- state
VARIABLES
    env,      \* process.env as the handlers read it
    txs,      \* signature -> the transaction that carries it
    chain,    \* signature -> "absent" | "pending" | "confirmed" on the ledger
    req       \* request slot -> the request in flight and its handler's locals

vars == <<env, txs, chain, req>>

Null == "null"

\* Signatures of the transactions the ledger may hold.
Sigs == {"sigA", "sigB", "sigC"}
\* A string that is no transaction signature (the RPC node refuses it).
BadSig == "not-a-signature"

Endpoints == {"/signals/daily", "/signals/polymarket/top"}

\* String(c.req.url)
RequestUrl(endpoint) == "http://localhost:3333" \o endpoint

\* The description each gated handler passes to buildAccepts.
Description(endpoint) ==
    IF endpoint = "/signals/daily" THEN "Unlock daily signal"
    ELSE "Unlock Polymarket top signals"

\* What the price endpoint does with one fetch: an HTTP status, a timeout
\* (abort after timeoutMs), or a body whose solana.usd is px (in cents;
\* finite = FALSE stands for NaN / a missing field).
OracleAnswer(kind, finite, px) == [kind |-> kind, finite |-> finite, px |-> px]

NoHeaders == [xPaymentTx |-> <<>>, xPayment |-> NoHeader, paymentSignature |-> NoHeader]

\* A request slot: the request, the handler's position and locals, and a
\* record of what its calls did (the oracle's answer, the signature
\* sendRawTransaction returned, the ledger status getParsedTransaction saw).
IdleReq ==
    [pc |-> "idle", endpoint |-> "", headers |-> NoHeaders, bypass |-> FALSE,
     solUsd |-> 0, required |-> 0, accepts |-> <<>>, path |-> "none",
     blob |-> EmptyBlob, sig |-> "", check |-> NoResult, parsed |-> ParsedPaymentFail(""),
     resp |-> NoResponse, threw |-> "",
     answer |-> OracleAnswer("none", TRUE, 0), sent |-> "", seen |-> "",
     nOracle |-> 0, nSend |-> 0, nGet |-> 0, nPayload |-> 0]

\* The handler returns resp: the request is answered.
Answer(q, resp) == [q EXCEPT !.pc = "done", !.resp = resp]

\* The handler throws at the named call: the framework answers 500.
Throw(q, at) == [q EXCEPT !.pc = "done", !.resp = ExceptionResponse, !.threw = at]

\* ----------------------------------------------------------------- oracle
\* Alternative: a failed fetch falls back to a built-in rate.
fetchSolUsdPriceFallback(answer) ==
    IF answer.kind # "ok" \/ ~answer.finite \/ answer.px <= 0
    THEN [ok |-> TRUE, px |-> 25000]
    ELSE [ok |-> TRUE, px |-> answer.px]

\* fetchSolUsdPrice: ok = FALSE when it throws.
fetchSolUsdPrice(answer) ==
    IF answer.kind # "ok" THEN [ok |-> FALSE, px |-> 0]
    ELSE IF ~answer.finite \/ answer.px <= 0 THEN [ok |-> FALSE, px |-> 0]
    ELSE [ok |-> TRUE, px |-> answer.px]

\* fetchSolUsdPrice().catch(() => null): 0 stands for null.
SolUsdOrNull(answer) ==
    IF fetchSolUsdPrice(answer).ok THEN fetchSolUsdPrice(answer).px ELSE 0

\* ---------------------------------------------------------------- handlers
\* Alternative: the treasury test comes before the bypass test.
HandlerEntryTreasuryFirst(q, e) ==
    LET cfg == readX402ConfigFromEnv(e) IN
    IF ~cfg.ok THEN Throw(q, "config")
    ELSE IF getX402TreasuryAddress(e) = "" THEN Answer(q, UnconfiguredResponse)
    ELSE IF cfg.X402_DEV_BYPASS
    THEN IF q.endpoint = "/signals/daily"
         THEN Answer([q EXCEPT !.bypass = TRUE], BypassResponse)
         ELSE [q EXCEPT !.bypass = TRUE, !.pc = "payload"]
    ELSE [q EXCEPT !.pc = "oracle"]

\* What a gated handler does with its configuration cfg: a failed parse
\* throws, then the bypass flag and the treasury address are tested.
HandlerConfigured(q, e, cfg) ==
    IF ~cfg.ok THEN Throw(q, "config")
    ELSE IF cfg.X402_DEV_BYPASS
    THEN IF q.endpoint = "/signals/daily"
         THEN Answer([q EXCEPT !.bypass = TRUE], BypassResponse)
         ELSE [q EXCEPT !.bypass = TRUE, !.pc = "payload"]
    ELSE IF getX402TreasuryAddress(e) = ZodError THEN Throw(q, "config")
    ELSE IF getX402TreasuryAddress(e) = "" THEN Answer(q, UnconfiguredResponse)
    ELSE [q EXCEPT !.pc = "oracle"]

\* A gated handler from its entry to its first await, with the configuration
\* it reads.
HandlerEntry(q, e) == HandlerConfigured(q, e, readX402ConfigFromEnv(e))

\* A gated handler with its quote made: the X-Payment-Tx branch before the
\* X-PAYMENT one, each up to the verifier's first await or its verdict.
HandlerQuoted(q2, treasury, accepts) ==
    LET q == [q2 EXCEPT !.accepts = <<accepts>>]
        paymentTx == Trim(q.headers.xPaymentTx)
    IN
    IF paymentTx # <<>>
    THEN LET pre == verifySolPaymentPre(treasury, paymentTx) IN
         IF pre.call
         THEN [q EXCEPT !.pc = "getTx", !.path = "txSig", !.sig = Join(Trim(paymentTx))]
         ELSE Answer([q EXCEPT !.path = "txSig", !.check = pre.result],
                     PaymentRequiredResponse(create402Body(accepts, pre.result.reason)))
    ELSE LET parsed == extractPaymentFromHeaders(q.headers)
             q3 == [q EXCEPT !.parsed = parsed]
         IN
         IF ~parsed.ok
         THEN Answer(q3, PaymentRequiredResponse(create402Body(accepts, Undefined)))
         ELSE LET pre == settleAndVerifyPaymentPre(parsed.txBase64) IN
              IF pre.call
              THEN [q3 EXCEPT !.pc = "send", !.path = "xPayment", !.blob = parsed.txBase64]
              ELSE Answer([q3 EXCEPT !.path = "xPayment", !.check = pre.result],
                          PaymentRequiredResponse(create402Body(accepts, pre.result.reason)))

\* A gated handler with requiredLamports computed: the quote is built.
HandlerRequired(q1, e, usd, solUsd, requiredLamports) ==
    HandlerQuoted([q1 EXCEPT !.required = requiredLamports],
                  getX402TreasuryAddress(e),
                  buildAccepts(e, requiredLamports, RequestUrl(q1.endpoint),
                               Description(q1.endpoint), usd, solUsd))

\* A gated handler with a rate: the price usd of the configuration is
\* converted.
HandlerRated(q1, e, usd, solUsd) ==
    HandlerRequired(q1, e, usd, solUsd, usdToLamports(usd, solUsd))

\* A gated handler from the oracle's answer to its next await (or response):
\* the 502, the quote, then the proof.
HandlerPriced(q, e, answer) ==
    LET solUsd == SolUsdOrNull(answer)
        q1 == [q EXCEPT !.nOracle = @ + 1, !.solUsd = solUsd]
    IN
    IF solUsd = 0 THEN Answer(q1, PricingUnavailableResponse)
    ELSE HandlerRated(q1, e, readX402ConfigFromEnv(e).X402_PRICE_USD, solUsd)

\* Alternative: a submission that threw is made once more before the bytes
\* are deserialized.
HandlerSentRetries(q, sent) ==
    LET q1 == [q EXCEPT !.nSend = @ + 1] IN
    IF sent = "" /\ q.nSend = 0 THEN q1
    ELSE IF sent = "" THEN [q1 EXCEPT !.pc = "import"]
    ELSE [q1 EXCEPT !.pc = "getTx", !.sig = settleAndVerifyPaymentSig(q.blob, sent)]

\* settleAndVerifyPayment from sendRawTransaction's outcome to its next await:
\* sent is the signature the node returned, "" when the call threw. With a
\* signature the next await is getParsedTransaction; in the catch block it
\* is the import of @solana/web3.js.
HandlerSent(q, sent) ==
    LET q1 == [q EXCEPT !.nSend = @ + 1] IN
    IF sent = "" THEN [q1 EXCEPT !.pc = "import"]
    ELSE [q1 EXCEPT !.pc = "getTx", !.sig = settleAndVerifyPaymentSig(q.blob, sent)]

\* settleAndVerifyPayment's catch block after its import: the bytes are
\* deserialized; without a signature the result is returned at once, with
\* one the next await is getParsedTransaction.
HandlerImported(q) ==
    LET sig == settleAndVerifyPaymentSig(q.blob, "") IN
    IF sig = ""
    THEN Answer([q EXCEPT !.check = Rejected("could not determine tx signature")],
                PaymentRequiredResponse(
                    create402Body(q.accepts[1], "could not determine tx signature")))
    ELSE [q EXCEPT !.pc = "getTx", !.sig = sig]

\* Alternative: the handler unlocks the resource without testing check.ok.
HandlerFetchedNoTest(q, e, tx) ==
    LET treasury == getX402TreasuryAddress(e)
        check == IF q.path = "txSig"
                 THEN verifySolPaymentPost(tx, treasury, q.sig, q.required)
                 ELSE settleAndVerifyPaymentPost(tx, q.sig, q.required, treasury)
        q1 == [q EXCEPT !.nGet = @ + 1, !.check = check]
    IN
    IF q.endpoint = "/signals/daily"
    THEN Answer(q1, PaidResponse(q.sig, check.paid, Null, Undefined))
    ELSE [q1 EXCEPT !.pc = "payload"]

\* Alternative: the verifier is given an amount priced at a remembered rate
\* (250.00) instead of the amount of this request's quote.
HandlerFetchedRememberedRate(q, e, tx) ==
    LET treasury == getX402TreasuryAddress(e)
        remembered == usdToLamports(readX402ConfigFromEnv(e).X402_PRICE_USD, 25000)
        check == IF q.path = "txSig"
                 THEN verifySolPaymentPost(tx, treasury, q.sig, remembered)
                 ELSE settleAndVerifyPaymentPost(tx, q.sig, remembered, treasury)
        q1 == [q EXCEPT !.nGet = @ + 1, !.check = check]
    IN
    IF ~check.ok
    THEN Answer(q1, PaymentRequiredResponse(create402Body(q.accepts[1], check.reason)))
    ELSE IF q.endpoint = "/signals/daily"
    THEN Answer(q1,
            IF q.path = "txSig"
            THEN PaidResponse(check.sig, check.paid, Null, "txSig")
            ELSE PaidResponse(check.sig, check.paid,
                              IF check.payer = Undefined THEN Null ELSE check.payer,
                              Undefined))
    ELSE [q1 EXCEPT !.pc = "payload"]

\* Alternative: a payment unlocks /signals/daily only; presented for another
\* resource it is refused.
HandlerFetchedResourceBound(q, e, tx) ==
    LET treasury == getX402TreasuryAddress(e)
        judged == IF q.path = "txSig"
                  THEN verifySolPaymentPost(tx, treasury, q.sig, q.required)
                  ELSE settleAndVerifyPaymentPost(tx, q.sig, q.required, treasury)
        check == IF judged.ok /\ q.endpoint # "/signals/daily"
                 THEN Rejected("payment is for another resource") ELSE judged
        q1 == [q EXCEPT !.nGet = @ + 1, !.check = check]
    IN
    IF ~check.ok
    THEN Answer(q1, PaymentRequiredResponse(create402Body(q.accepts[1], check.reason)))
    ELSE Answer(q1,
            IF q.path = "txSig"
            THEN PaidResponse(check.sig, check.paid, Null, "txSig")
            ELSE PaidResponse(check.sig, check.paid,
                              IF check.payer = Undefined THEN Null ELSE check.payer,
                              Undefined))

\* A gated handler from getParsedTransaction's answer on: the verifier's
\* verdict, then the 402 with its reason or the paid response.
HandlerFetched(q, e, tx) ==
    LET treasury == getX402TreasuryAddress(e)
        check == IF q.path = "txSig"
                 THEN verifySolPaymentPost(tx, treasury, q.sig, q.required)
                 ELSE settleAndVerifyPaymentPost(tx, q.sig, q.required, treasury)
        q1 == [q EXCEPT !.nGet = @ + 1, !.check = check]
    IN
    IF ~check.ok
    THEN Answer(q1, PaymentRequiredResponse(create402Body(q.accepts[1], check.reason)))
    ELSE IF q.endpoint = "/signals/daily"
    THEN Answer(q1,
            IF q.path = "txSig"
            THEN PaidResponse(check.sig, check.paid, Null, "txSig")
            ELSE PaidResponse(check.sig, check.paid,
                              IF check.payer = Undefined THEN Null ELSE check.payer,
                              Undefined))
    ELSE [q1 EXCEPT !.pc = "payload"]

\* /x402/pricing from its entry to its await: the configuration is read.
PricingEntry(q, e) ==
    IF ~readX402ConfigFromEnv(e).ok THEN Throw(q, "config")
    ELSE [q EXCEPT !.pc = "pricing"]

\* Alternative: a failed fetch is answered 502, as the gated handlers do.
PricingPricedOr502(q, e, answer) ==
    LET cfg == readX402ConfigFromEnv(e)
        solUsd == SolUsdOrNull(answer)
        q1 == [q EXCEPT !.nOracle = @ + 1, !.solUsd = solUsd]
    IN IF solUsd = 0 THEN Answer(q1, PricingUnavailableResponse)
       ELSE Answer(q1,
               PricingResponse(cfg.X402_PRICE_USD, JsonNumber(solUsd),
                   JsonNumber(usdToLamports(cfg.X402_PRICE_USD, solUsd)),
                   IF getX402TreasuryAddress(e) = "" THEN Null
                   ELSE getX402TreasuryAddress(e)))

\* The response of /x402/pricing for the price usd of the configuration.
PricingAnswered(q1, e, usd, solUsd) ==
    Answer(q1,
       PricingResponse(usd,
           IF solUsd # 0 THEN JsonNumber(solUsd) ELSE JsonNull,
           IF solUsd # 0 THEN JsonNumber(usdToLamports(usd, solUsd)) ELSE JsonNull,
           IF getX402TreasuryAddress(e) = "" THEN Null ELSE getX402TreasuryAddress(e)))

\* /x402/pricing from the oracle's answer to its response.
PricingPriced(q, e, answer) ==
    PricingAnswered([q EXCEPT !.nOracle = @ + 1, !.solUsd = SolUsdOrNull(answer)],
                    e, readX402ConfigFromEnv(e).X402_PRICE_USD, SolUsdOrNull(answer))

\* The payload of /signals/polymarket/top: fetchGammaMarkets returned (ok) or
\* threw, and then the 200.
HandlerPayload(q, ok) ==
    LET q1 == [q EXCEPT !.nPayload = @ + 1] IN
    IF ok THEN Answer(q1, SignalsResponse(q.bypass)) ELSE Throw(q1, "payload")

\* ------------------------------------------------------------------ inputs
\* The transactions of the protocol runs: sigA pays 2_000_000 lamports to the
\* treasury in two transfers (and 50 elsewhere); sigB pays exactly 1_000_000
\* (its token-program transfer does not count); sigC failed on the ledger.
CatalogueTxs ==
    [s \in Sigs |->
        IF s = "sigA"
        THEN ParsedTx(FALSE,
                <<Ix("system", "transfer", TreasuryAddr, 1000000),
                  Ix("system", "transfer", OtherAddr, 50),
                  Ix("system", "transfer", TreasuryAddr, 1000000)>>,
                <<PayerAddr, TreasuryAddr, OtherAddr>>)
        ELSE IF s = "sigB"
        THEN ParsedTx(FALSE,
                <<Ix("spl-token", "transfer", TreasuryAddr, 1000000),
                  Ix("system", "transfer", TreasuryAddr, 1000000)>>,
                <<OtherAddr, TreasuryAddr>>)
        ELSE ParsedTx(TRUE,
                <<Ix("system", "transfer", TreasuryAddr, 2000000)>>,
                <<PayerAddr, TreasuryAddr>>)]

\* X-Payment-Tx header values: absent, blank, a signature (also with blanks
\* around it), a string that is no signature.
TxHeaders ==
    {<<>>, <<" ">>, <<"sigA">>, <<" ", "sigB", " ">>, <<"sigC">>, <<BadSig>>}

\* X-PAYMENT header values.
PayHeaders ==
    {NoHeader, NotJsonHeader, JsonHeader(FALSE, EmptyBlob), JsonHeader(TRUE, EmptyBlob),
     JsonHeader(TRUE, JunkBlob)}
    \cup {JsonHeader(TRUE, Blob("tx", s)) : s \in Sigs}

\* PAYMENT-SIGNATURE header values.
SigHeaders == {NoHeader, JsonHeader(TRUE, Blob("tx", "sigA"))}

Headers ==
    [xPaymentTx : TxHeaders, xPayment : PayHeaders, paymentSignature : {NoHeader}]
    \cup
    [xPaymentTx : {<<>>, <<"sigB">>}, xPayment : {NoHeader, NotJsonHeader},
     paymentSignature : SigHeaders]

\* What the price endpoint may answer.
OracleAnswers ==
    {OracleAnswer("ok", TRUE, px) : px \in OracleRates}
    \cup
    {OracleAnswer("ok", TRUE, 0), OracleAnswer("ok", FALSE, 0),
     OracleAnswer("http_error", TRUE, 0), OracleAnswer("timeout", TRUE, 0)}

\* ----------------------------------------------------------------- actions
\* A request for one of eps with headers from hs arrives and its handler runs
\* to its first await.
ReceiveFrom(r, eps, hs) ==
    /\ req[r].pc = "idle"
    /\ \E ep \in eps, h \in hs :
          req' = [req EXCEPT ![r] =
                    HandlerEntry([IdleReq EXCEPT !.endpoint = ep, !.headers = h], env)]
    /\ UNCHANGED <<env, txs, chain>>

Receive(r) == ReceiveFrom(r, Endpoints, Headers)

\* await fetchSolUsdPrice() completes with one of answers.
OracleReplyFrom(r, answers) ==
    /\ req[r].pc = "oracle"
    /\ \E a \in answers :
          req' = [req EXCEPT ![r] = HandlerPriced([req[r] EXCEPT !.answer = a], env, a)]
    /\ UNCHANGED <<env, txs, chain>>

OracleReply(r) == OracleReplyFrom(r, OracleAnswers)

\* await connection.sendRawTransaction(raw) returns the signature: the node
\* took the transaction (it passes preflight and has not been processed).
SendAccepted(r) ==
    /\ req[r].pc = "send"
    /\ req[r].blob.bytes = "tx"
    /\ chain[req[r].blob.sig] \in {"absent", "pending"}
    /\ ~txs[req[r].blob.sig].err
    /\ chain' = [chain EXCEPT ![req[r].blob.sig] = "pending"]
    /\ req' = [req EXCEPT ![r] =
                HandlerSent([req[r] EXCEPT !.sent = req[r].blob.sig], req[r].blob.sig)]
    /\ UNCHANGED <<env, txs>>

\* await connection.sendRawTransaction(raw) throws: not a transaction,
\* failed preflight, already processed, or the node did not answer. The
\* catch block runs to its await of the import.
SendThrows(r) ==
    /\ req[r].pc = "send"
    /\ req' = [req EXCEPT ![r] = HandlerSent(req[r], "")]
    /\ UNCHANGED <<env, txs, chain>>

\* await import("@solana/web3.js") in the catch block completes.
ImportReturns(r) ==
    /\ req[r].pc = "import"
    /\ req' = [req EXCEPT ![r] = HandlerImported(req[r])]
    /\ UNCHANGED <<env, txs, chain>>

\* Alternative: the transaction is read at "processed" commitment, so one
\* that is submitted but not confirmed is returned too.
GetTxReturnsProcessed(r) ==
    /\ req[r].pc = "getTx"
    /\ req[r].sig \in Sigs
    /\ req' = [req EXCEPT ![r] =
                HandlerFetched([req[r] EXCEPT !.seen = chain[req[r].sig]], env,
                    IF chain[req[r].sig] \in {"pending", "confirmed"}
                    THEN txs[req[r].sig] ELSE NoTx)]
    /\ UNCHANGED <<env, txs, chain>>

\* await connection.getParsedTransaction(sig, confirmed) returns.
GetTxReturns(r) ==
    /\ req[r].pc = "getTx"
    /\ req[r].sig \in Sigs
    /\ req' = [req EXCEPT ![r] =
                HandlerFetched([req[r] EXCEPT !.seen = chain[req[r].sig]], env,
                    IF chain[req[r].sig] = "confirmed" THEN txs[req[r].sig] ELSE NoTx)]
    /\ UNCHANGED <<env, txs, chain>>

\* await connection.getParsedTransaction throws (the node refuses the
\* signature string, or does not answer): nothing in the handler catches it.
GetTxThrows(r) ==
    /\ req[r].pc = "getTx"
    /\ req' = [req EXCEPT ![r] = Throw([req[r] EXCEPT !.nGet = @ + 1], "getTx")]
    /\ UNCHANGED <<env, txs, chain>>

\* await fetchGammaMarkets(...) of /signals/polymarket/top completes.
PayloadReply(r) ==
    /\ req[r].pc = "payload"
    /\ \E ok \in BOOLEAN : req' = [req EXCEPT ![r] = HandlerPayload(req[r], ok)]
    /\ UNCHANGED <<env, txs, chain>>

\* The response is delivered; the slot is free for the next request.
Finish(r) ==
    /\ req[r].pc = "done"
    /\ req' = [req EXCEPT ![r] = IdleReq]
    /\ UNCHANGED <<env, txs, chain>>

\* A client submits its transaction to the ledger itself.
ClientSubmit(s) ==
    /\ chain[s] = "absent"
    /\ chain' = [chain EXCEPT ![s] = "pending"]
    /\ UNCHANGED <<env, txs, req>>

\* The ledger confirms a submitted transaction.
Confirm(s) ==
    /\ chain[s] = "pending"
    /\ chain' = [chain EXCEPT ![s] = "confirmed"]
    /\ UNCHANGED <<env, txs, req>>

\* ------------------------------------------------------------ specification
Init ==
    /\ env \in Envs
    /\ txs = CatalogueTxs
    /\ chain = [s \in Sigs |-> "absent"]
    /\ req = [r \in {"r1"} |-> IdleReq]

Next ==
    \/ \E r \in DOMAIN req : Receive(r)
    \/ \E r \in DOMAIN req : OracleReply(r)
    \/ \E r \in DOMAIN req : SendAccepted(r)
    \/ \E r \in DOMAIN req : SendThrows(r)
    \/ \E r \in DOMAIN req : ImportReturns(r)
    \/ \E r \in DOMAIN req : GetTxReturns(r)
    \/ \E r \in DOMAIN req : GetTxThrows(r)
    \/ \E r \in DOMAIN req : PayloadReply(r)
    \/ \E r \in DOMAIN req : Finish(r)
    \/ \E s \in Sigs : ClientSubmit(s)
    \/ \E s \in Sigs : Confirm(s)

Spec == Init /\ [][Next]_vars

\* ------------------------------------------------- the verifiers' inputs
\* Instructions the transaction under test is built from.
PayIxs ==
    {Ix("system", "transfer", TreasuryAddr, 100),
     Ix("system", "transfer", TreasuryAddr, 200),
     Ix("system", "transfer", OtherAddr, 50),
     Ix("system", "transfer", TreasuryAddr, 999999),
     Ix("system", "transfer", TreasuryAddr, 1000000),
     Ix("spl-token", "transfer", TreasuryAddr, 1000000),
     Ix("system", "createAccount", "", 1000000)}

\* Instruction lists of at most MaxIx instructions.
PayIxLists == UNION {[1..n -> PayIxs] : n \in 0..MaxIx}

\* The two proofs of sigA: its signature, and its signed bytes.
PayHeadersOfSigA ==
    {[NoHeaders EXCEPT !.xPaymentTx = <<"sigA">>],
     [NoHeaders EXCEPT !.xPayment = JsonHeader(TRUE, Blob("tx", "sigA"))]}

ReceivePay(r) == ReceiveFrom(r, {"/signals/daily"}, PayHeadersOfSigA)

\* sigA is on the ledger, confirmed, with any instruction list; requests
\* present it in either proof form.
InitPay ==
    /\ env = PayEnv
    /\ \E err \in BOOLEAN, ixs \in PayIxLists, keys \in {<<>>, <<PayerAddr, TreasuryAddr>>} :
          txs = [CatalogueTxs EXCEPT !["sigA"] = ParsedTx(err, ixs, keys)]
    /\ chain = [s \in Sigs |-> IF s = "sigA" THEN "confirmed" ELSE "absent"]
    /\ req = [r \in {"r1"} |-> IdleReq]

NextPay ==
    \/ \E r \in DOMAIN req : ReceivePay(r)
    \/ \E r \in DOMAIN req : OracleReply(r)
    \/ \E r \in DOMAIN req : SendThrows(r)
    \/ \E r \in DOMAIN req : ImportReturns(r)
    \/ \E r \in DOMAIN req : GetTxReturns(r)
    \/ \E r \in DOMAIN req : GetTxThrows(r)
    \/ \E r \in DOMAIN req : Finish(r)

SpecPay == InitPay /\ [][NextPay]_vars

\* ------------------------------------------- the verifiers' ledger answers
\* As InitPay, with sigA in any state of the ledger: never submitted,
\* submitted, or confirmed (having failed or not).
InitLedger ==
    /\ env = PayEnv
    /\ \E err \in BOOLEAN, ixs \in PayIxLists, keys \in {<<>>, <<PayerAddr, TreasuryAddr>>} :
          txs = [CatalogueTxs EXCEPT !["sigA"] = ParsedTx(err, ixs, keys)]
    /\ \E st \in {"absent", "pending", "confirmed"} :
          chain = [s \in Sigs |-> IF s = "sigA" THEN st ELSE "absent"]
    /\ req = [r \in {"r1"} |-> IdleReq]

\* The node may take sigA's bytes when sigA has not landed, and the ledger
\* moves sigA on while requests are handled (sigA is the one transaction
\* requests present here).
NextLedger ==
    \/ \E r \in DOMAIN req : ReceivePay(r)
    \/ \E r \in DOMAIN req : OracleReply(r)
    \/ \E r \in DOMAIN req : SendAccepted(r)
    \/ \E r \in DOMAIN req : SendThrows(r)
    \/ \E r \in DOMAIN req : ImportReturns(r)
    \/ \E r \in DOMAIN req : GetTxReturns(r)
    \/ \E r \in DOMAIN req : GetTxThrows(r)
    \/ \E r \in DOMAIN req : Finish(r)
    \/ ClientSubmit("sigA")
    \/ Confirm("sigA")

SpecLedger == InitLedger /\ [][NextLedger]_vars

\* ------------------------------------------------- two requests in flight
\* Proofs of the catalogue's transactions, in either form.
RaceHeaders ==
    {[NoHeaders EXCEPT !.xPaymentTx = <<s>>] : s \in Sigs}
    \cup {[NoHeaders EXCEPT !.xPayment = JsonHeader(TRUE, Blob("tx", s))] : s \in Sigs}

ReceiveRace(r) == ReceiveFrom(r, {"/signals/daily"}, RaceHeaders)

\* Two handlers run concurrently (each await is a yield point) against one
\* ledger; nothing is on the ledger at the start.
InitRace ==
    /\ env = PayEnv
    /\ txs = CatalogueTxs
    /\ chain = [s \in Sigs |-> "absent"]
    /\ req = [r \in {"r1", "r2"} |-> IdleReq]

NextRace ==
    \/ \E r \in DOMAIN req : ReceiveRace(r)
    \/ \E r \in DOMAIN req : OracleReply(r)
    \/ \E r \in DOMAIN req : SendAccepted(r)
    \/ \E r \in DOMAIN req : SendThrows(r)
    \/ \E r \in DOMAIN req : ImportReturns(r)
    \/ \E r \in DOMAIN req : GetTxReturns(r)
    \/ \E r \in DOMAIN req : GetTxThrows(r)
    \/ \E r \in DOMAIN req : Finish(r)
    \/ \E s \in Sigs : ClientSubmit(s)
    \/ \E s \in Sigs : Confirm(s)

SpecRace == InitRace /\ [][NextRace]_vars

\* ------------------------------------------------------ request and retry
\* What a client sends: no proof, or a proof of one of its transactions.
RetryHeaders == {NoHeaders} \cup RaceHeaders

\* The client's first request for a gated resource.
ReceiveFirst == ReceiveFrom("first", Endpoints, RetryHeaders)

\* The client has the answer to its first request and asks again for the
\* same resource.
ReceiveRetry ==
    /\ req["first"].pc = "done"
    /\ ReceiveFrom("retry", {req["first"].endpoint}, RetryHeaders)

\* The answer to a retry is delivered; the client may retry again.
FinishRetry == Finish("retry")

\* A client asks, reads the answer, pays or waits, and asks again; the
\* answer to the first request stays with the client.
InitRetry ==
    /\ env = PayEnv
    /\ txs = CatalogueTxs
    /\ chain = [s \in Sigs |-> "absent"]
    /\ req = [r \in {"first", "retry"} |-> IdleReq]

NextRetry ==
    \/ ReceiveFirst
    \/ ReceiveRetry
    \/ \E r \in DOMAIN req : OracleReply(r)
    \/ \E r \in DOMAIN req : SendAccepted(r)
    \/ \E r \in DOMAIN req : SendThrows(r)
    \/ \E r \in DOMAIN req : ImportReturns(r)
    \/ \E r \in DOMAIN req : GetTxReturns(r)
    \/ \E r \in DOMAIN req : GetTxThrows(r)
    \/ \E r \in DOMAIN req : PayloadReply(r)
    \/ FinishRetry
    \/ \E s \in Sigs : ClientSubmit(s)
    \/ \E s \in Sigs : Confirm(s)

SpecRetry == InitRetry /\ [][NextRetry]_vars

\* ------------------------------------------------- a proof presented again
\* The client's first request, for /signals/daily.
ReceiveFirstDaily == ReceiveFrom("first", {"/signals/daily"}, RetryHeaders)

\* The client has the answer to its first request and asks again, for
\* either gated resource.
ReceiveReplay ==
    /\ req["first"].pc = "done"
    /\ ReceiveFrom("retry", Endpoints, RetryHeaders)

NextReplay ==
    \/ ReceiveFirstDaily
    \/ ReceiveReplay
    \/ \E r \in DOMAIN req : OracleReply(r)
    \/ \E r \in DOMAIN req : SendAccepted(r)
    \/ \E r \in DOMAIN req : SendThrows(r)
    \/ \E r \in DOMAIN req : ImportReturns(r)
    \/ \E r \in DOMAIN req : GetTxReturns(r)
    \/ \E r \in DOMAIN req : GetTxThrows(r)
    \/ \E r \in DOMAIN req : PayloadReply(r)
    \/ FinishRetry
    \/ \E s \in Sigs : ClientSubmit(s)
    \/ \E s \in Sigs : Confirm(s)

SpecReplay == InitRetry /\ [][NextReplay]_vars

\* ------------------------------------------------------------ quotes only
ReceiveQuote(r) == ReceiveFrom(r, Endpoints, {NoHeaders})

OracleReplyQuote(r) ==
    OracleReplyFrom(r, {OracleAnswer("ok", TRUE, px) : px \in QuoteRates})

\* Requests without proof are priced at every rate for every price setting.
InitQuote ==
    /\ env \in QuoteEnvs
    /\ txs = CatalogueTxs
    /\ chain = [s \in Sigs |-> "absent"]
    /\ req = [r \in {"r1"} |-> IdleReq]

NextQuote ==
    \/ \E r \in DOMAIN req : ReceiveQuote(r)
    \/ \E r \in DOMAIN req : OracleReplyQuote(r)
    \/ \E r \in DOMAIN req : Finish(r)

SpecQuote == InitQuote /\ [][NextQuote]_vars

\* ------------------------------------------- one transaction, both proofs
\* One request presents the signature of sigA, the other its signed bytes.
ReceiveRef ==
    ReceiveFrom("ref", {"/signals/daily"}, {[NoHeaders EXCEPT !.xPaymentTx = <<"sigA">>]})

ReceiveBlob ==
    ReceiveFrom("blob", {"/signals/daily"},
                {[NoHeaders EXCEPT !.xPayment = JsonHeader(TRUE, Blob("tx", "sigA"))]})

\* sigA is confirmed with any instruction list.
InitBoth ==
    /\ env \in BothEnvs
    /\ \E err \in BOOLEAN, ixs \in PayIxLists :
          txs = [CatalogueTxs EXCEPT !["sigA"] = ParsedTx(err, ixs, <<PayerAddr, TreasuryAddr>>)]
    /\ chain = [s \in Sigs |-> IF s = "sigA" THEN "confirmed" ELSE "absent"]
    /\ req = [r \in {"ref", "blob"} |-> IdleReq]

NextBoth ==
    \/ ReceiveRef
    \/ ReceiveBlob
    \/ \E r \in DOMAIN req : OracleReply(r)
    \/ \E r \in DOMAIN req : SendThrows(r)
    \/ \E r \in DOMAIN req : ImportReturns(r)
    \/ \E r \in DOMAIN req : GetTxReturns(r)
    \/ \E r \in DOMAIN req : GetTxThrows(r)

SpecBoth == InitBoth /\ [][NextBoth]_vars

\* -------------------------------------------------------- pricing endpoint
\* A request for /x402/pricing arrives, with any headers.
ReceivePricing(r) ==
    /\ req[r].pc = "idle"
    /\ \E h \in Headers :
          req' = [req EXCEPT ![r] =
                    PricingEntry([IdleReq EXCEPT !.endpoint = "/x402/pricing",
                                                 !.headers = h], env)]
    /\ UNCHANGED <<env, txs, chain>>

\* await fetchSolUsdPrice().catch(() => null) of /x402/pricing completes.
PricingOracleReply(r) ==
    /\ req[r].pc = "pricing"
    /\ \E a \in OracleAnswers :
          req' = [req EXCEPT ![r] = PricingPriced([req[r] EXCEPT !.answer = a], env, a)]
    /\ UNCHANGED <<env, txs, chain>>

\* Requests for /x402/pricing under every configuration, while clients
\* land transactions on the ledger.
NextPricing ==
    \/ \E r \in DOMAIN req : ReceivePricing(r)
    \/ \E r \in DOMAIN req : PricingOracleReply(r)
    \/ \E r \in DOMAIN req : Finish(r)
    \/ \E s \in Sigs : ClientSubmit(s)
    \/ \E s \in Sigs : Confirm(s)

SpecPricing == Init /\ [][NextPricing]_vars

\* ------------------------------------------------- awaits and their timers
\* The awaits that are sure to complete: fetchSolUsdPrice aborts its fetch
\* after timeoutMs and fetchGammaMarkets after its timeoutMs, so each either
\* returns or throws; the import of a module completes; the response of a
\* finished handler is delivered.
\* sendRawTransaction and getParsedTransaction are awaited with no timer:
\* they complete when the RPC node replies, if it does.
FairTimers ==
    /\ WF_vars(OracleReply("r1"))
    /\ WF_vars(ImportReturns("r1"))
    /\ WF_vars(PayloadReply("r1"))
    /\ WF_vars(Finish("r1"))

SpecTimers == Init /\ [][Next]_vars /\ FairTimers

\* ------------------------------------------------- a caller that retries
\* The X-PAYMENT header the caller sends with every request: the signed
\* bytes of sigA, which pays the treasury 2_000_000 lamports.
SameHeader == [NoHeaders EXCEPT !.xPayment = JsonHeader(TRUE, Blob("tx", "sigA"))]

\* The caller sends its request, again and again.
ReceiveSame(r) == ReceiveFrom(r, {"/signals/daily"}, {SameHeader})

\* The oracle is available: it answers with a valid rate.
OracleReplyOk(r) == OracleReplyFrom(r, {a \in OracleAnswers : fetchSolUsdPrice(a).ok})

\* Nothing is on the ledger yet; the gate is configured and not bypassed.
InitProgress ==
    /\ env = PayEnv
    /\ txs = CatalogueTxs
    /\ chain = [s \in Sigs |-> "absent"]
    /\ req = [r \in {"r1"} |-> IdleReq]

NextProgress ==
    \/ \E r \in DOMAIN req : ReceiveSame(r)
    \/ \E r \in DOMAIN req : OracleReplyOk(r)
    \/ \E r \in DOMAIN req : SendAccepted(r)
    \/ \E r \in DOMAIN req : SendThrows(r)
    \/ \E r \in DOMAIN req : ImportReturns(r)
    \/ \E r \in DOMAIN req : GetTxReturns(r)
    \/ \E r \in DOMAIN req : GetTxThrows(r)
    \/ \E r \in DOMAIN req : Finish(r)
    \/ \E s \in Sigs : ClientSubmit(s)
    \/ \E s \in Sigs : Confirm(s)

\* The caller keeps asking, the oracle answers with a rate, each call to the
\* RPC node completes (it returns or it throws), the ledger confirms what
\* was submitted to it, and a node that keeps being handed a valid
\* transaction that has not landed takes it at some point, as one that
\* keeps being asked for a transaction returns it at some point.
FairProgress ==
    /\ WF_vars(ReceiveSame("r1"))
    /\ WF_vars(OracleReplyOk("r1"))
    /\ WF_vars(SendAccepted("r1") \/ SendThrows("r1"))
    /\ WF_vars(ImportReturns("r1"))
    /\ SF_vars(SendAccepted("r1"))
    /\ WF_vars(GetTxReturns("r1") \/ GetTxThrows("r1"))
    /\ SF_vars(GetTxReturns("r1"))
    /\ WF_vars(Finish("r1"))
    /\ WF_vars(Confirm("sigA"))

SpecProgress == InitProgress /\ [][NextProgress]_vars /\ FairProgress

\* =================================================================== claims
\* The configuration parsed and X402_DEV_BYPASS is off / on.
BypassDisabled == readX402ConfigFromEnv(env).ok /\ ~readX402ConfigFromEnv(env).X402_DEV_BYPASS
BypassEnabled == readX402ConfigFromEnv(env).ok /\ readX402ConfigFromEnv(env).X402_DEV_BYPASS

\* The protected payload was produced, or its provider was called.
PayloadInvoked(q) == q.nPayload > 0 \/ q.pc = "payload" \/ q.resp.payload # "absent"

\* A verifier ran in the request and rejected.
VerifierRejected(q) == q.check # NoResult /\ ~q.check.ok

\* The extractor ran on a header that is present and rejected it.
MalformedProof(q) ==
    ~q.parsed.ok /\ q.parsed.reason \notin {"", "missing X-PAYMENT header"}

RECURSIVE QualifyingSum(_, _)
\* The lamports of the system-program transfers of ixs whose destination is
\* payTo, added up.
QualifyingSum(ixs, payTo) ==
    IF ixs = <<>> THEN 0
    ELSE (IF /\ Head(ixs).program = "system"
             /\ Head(ixs).type = "transfer"
             /\ Head(ixs).destination = payTo
          THEN Head(ixs).lamports ELSE 0) + QualifyingSum(Tail(ixs), payTo)

\* The request fetched its transaction, which is confirmed and did not fail,
\* and has been answered.
JudgedOnLedger(q) ==
    /\ q.pc = "done"
    /\ q.nGet = 1
    /\ q.threw = ""
    /\ q.sig \in Sigs
    /\ chain[q.sig] = "confirmed"
    /\ ~txs[q.sig].err
    /\ q.required >= 1

\* The reason each verifier gives for an insufficient payment.
InsufficientReason(path, paid, required) ==
    IF path = "txSig"
    THEN "insufficient payment: paid " \o ToString(paid) \o " lamports, require "
            \o ToString(required)
    ELSE "insufficient payment: paid=" \o ToString(paid) \o " require="
            \o ToString(required)

\* C1: with bypass disabled, a gated request is answered 200 or reaches the
\* payload provider only if a verifier returned ok in that same request
\* after reading the ledger; when a verifier rejected (insufficient, not
\* found, failed, no signature) or the extractor rejected a present header,
\* the response is not 200 and the payload provider is not invoked.
C1_GrantOnlyIfVerified ==
    \A r \in DOMAIN req :
        LET q == req[r] IN
        BypassDisabled =>
            /\ (q.resp.status = 200 \/ PayloadInvoked(q)) => (q.check.ok /\ q.nGet >= 1)
            /\ (VerifierRejected(q) \/ MalformedProof(q)) =>
                   (q.resp.status # 200 /\ ~PayloadInvoked(q))

\* C1 witness: a paid 200 after a verifier accepted.
C1_Witness ==
    \E r \in DOMAIN req :
        /\ BypassDisabled
        /\ req[r].resp.status = 200
        /\ req[r].resp.paid = "true"
        /\ req[r].check.ok

\* C2: for a transaction found at confirmed commitment with no execution
\* error and a required amount >= 1, either verifier returns Verified, and
\* the request is answered 200, exactly when the lamports the ledger's
\* instruction list sends to payTo are at least the required amount.
C2_VerifiedIffPaidEnough ==
    \A r \in DOMAIN req :
        LET q == req[r]
            paid == QualifyingSum(txs[q.sig].instructions, getX402TreasuryAddress(env))
        IN JudgedOnLedger(q) =>
              /\ q.check.ok <=> (paid >= q.required)
              /\ (q.resp.status = 200) <=> (paid >= q.required)

\* C2 witness: required 1_000_000 and exactly 1_000_000 paid, on the
\* X-PAYMENT path, is Verified.
C2_Witness ==
    \E r \in DOMAIN req :
        /\ JudgedOnLedger(req[r])
        /\ req[r].path = "xPayment"
        /\ req[r].required = 1000000
        /\ req[r].check.ok
        /\ req[r].check.paid = 1000000

\* C3: paid is the sum of the lamports of exactly the instructions whose
\* program is the system program, whose type is "transfer" and whose
\* destination is payTo: a Verified result and its receipt carry that sum,
\* and a smaller sum (0 included) is a 402 whose reason names that sum, not
\* an error.
C3_PaidIsQualifyingSum ==
    \A r \in DOMAIN req :
        LET q == req[r]
            paid == QualifyingSum(txs[q.sig].instructions, getX402TreasuryAddress(env))
        IN JudgedOnLedger(q) =>
              IF q.check.ok
              THEN /\ q.check.paid = paid
                   /\ q.resp.payment[1].paidLamports = ToString(paid)
              ELSE /\ q.check.reason = InsufficientReason(q.path, paid, q.required)
                   /\ q.resp.status = 402
                   /\ q.resp.error = q.check.reason

\* C3 witness: 100 + 200 to payTo and 50 elsewhere is reported as paid 300.
C3_Witness ==
    \E r \in DOMAIN req :
        /\ JudgedOnLedger(req[r])
        /\ txs[req[r].sig].instructions =
              <<Ix("system", "transfer", TreasuryAddr, 100),
                Ix("system", "transfer", OtherAddr, 50),
                Ix("system", "transfer", TreasuryAddr, 200)>>
        /\ req[r].path = "txSig"
        /\ req[r].check.reason =
              "insufficient payment: paid 300 lamports, require 1000000"

\* The X-PAYMENT header is present but does not decode to a valid payload.
MalformedHeader(h) == h.kind = "notjson" \/ (h.kind = "json" /\ ~h.hasTransaction)

\* C4: with bypass disabled, when X-PAYMENT is present the X-Payment-Tx
\* reference is not consulted (verifySolPayment does not run), and a
\* malformed X-PAYMENT is never answered by a verification of the reference.
C4_StructuredHeaderFirst ==
    \A r \in DOMAIN req :
        LET q == req[r] IN
        (BypassDisabled /\ q.pc # "idle" /\ q.headers.xPayment.kind # "absent") =>
            /\ q.path # "txSig"
            /\ MalformedHeader(q.headers.xPayment) =>
                   (~q.check.ok /\ q.resp.status # 200)

\* C5: a request that carries a proof and fails (a verifier rejected, or the
\* X-PAYMENT header is malformed) is answered 402 with one quote and with the
\* failure's own reason in the error field.
C5_FailureReasonInQuote ==
    \A r \in DOMAIN req :
        LET q == req[r] IN
        (q.pc = "done" /\ BypassDisabled /\ (VerifierRejected(q) \/ MalformedProof(q))) =>
            /\ q.resp.status = 402
            /\ Len(q.resp.accepts) = 1
            /\ q.resp.error = IF VerifierRejected(q) THEN q.check.reason
                              ELSE q.parsed.reason

\* C6: with bypass enabled every request to /signals/daily is answered at
\* once with 200, paid:false and the bypass marker, whatever the headers
\* and the treasury setting, without a call to the oracle or the ledger; a
\* 200 with paid:true is never a bypass response.
C6_BypassAlwaysUnpaid200 ==
    \A r \in DOMAIN req :
        LET q == req[r] IN
        /\ (BypassEnabled /\ q.endpoint = "/signals/daily") =>
              /\ q.pc = "done"
              /\ q.resp.status = 200
              /\ q.resp.paid = "false"
              /\ q.resp.bypass = "true"
              /\ q.resp.payload = "signal"
              /\ q.nOracle = 0 /\ q.nSend = 0 /\ q.nGet = 0
        /\ (q.endpoint = "/signals/daily" /\ q.resp.status = 200 /\ q.resp.paid = "true") =>
              (~BypassEnabled /\ q.resp.bypass # "true")

\* C6 witness: a bypass response to a request that carries a proof header,
\* on a server with no treasury address.
C6_Witness ==
    \E r \in DOMAIN req :
        /\ BypassEnabled
        /\ env.X402_TREASURY_ADDRESS = Unset
        /\ req[r].endpoint = "/signals/daily"
        /\ req[r].headers.xPaymentTx = <<"sigA">>
        /\ req[r].resp.status = 200
        /\ req[r].resp.paid = "false"

\* C7: no exception raised by a ledger call leaves the gated handler: a
\* request that called the ledger is answered 200, 402 or 502 by the handler.
C7_NoLedgerException ==
    \A r \in DOMAIN req :
        LET q == req[r] IN
        /\ q.threw # "getTx"
        /\ (q.pc = "done" /\ q.nGet >= 1 /\ q.threw # "payload") =>
               q.resp.status \in {200, 402, 502}

\* The fetch failed: no OK answer, or a rate that is not finite and positive.
OracleFailed(a) == a.kind # "ok" \/ ~a.finite \/ a.px <= 0

TreasuryConfigured == env.X402_TREASURY_ADDRESS \notin {Unset, <<>>}

\* C8: with bypass disabled and a treasury configured, a request whose
\* oracle fetch failed is answered 502 whatever its headers; no quote is
\* built and neither the ledger nor the payload provider is called.
C8_OracleFailureIs502 ==
    \A r \in DOMAIN req :
        LET q == req[r] IN
        (BypassDisabled /\ TreasuryConfigured /\ q.nOracle >= 1 /\ OracleFailed(q.answer)) =>
            /\ q.pc = "done"
            /\ q.resp.status = 502
            /\ q.accepts = <<>>
            /\ q.resp.accepts = <<>>
            /\ q.nSend = 0 /\ q.nGet = 0
            /\ ~PayloadInvoked(q)

\* C8 witness: the 502 of a request that presents a confirmed, sufficient
\* payment while the oracle times out.
C8_Witness ==
    \E r \in DOMAIN req :
        /\ BypassDisabled
        /\ TreasuryConfigured
        /\ req[r].answer.kind = "timeout"
        /\ req[r].headers.xPaymentTx = <<"sigA">>
        /\ chain["sigA"] = "confirmed"
        /\ req[r].resp.status = 502

\* C9: with bypass disabled and no treasury address, every gated request is
\* answered at once with 500 "server not configured", whatever its headers,
\* and neither the oracle, the ledger nor the payload provider is called.
C9_UnconfiguredIs500 ==
    \A r \in DOMAIN req :
        LET q == req[r] IN
        (BypassDisabled /\ ~TreasuryConfigured /\ q.pc # "idle") =>
            /\ q.pc = "done"
            /\ q.resp.status = 500
            /\ q.resp.error = "server not configured"
            /\ q.nOracle = 0 /\ q.nSend = 0 /\ q.nGet = 0 /\ q.nPayload = 0

\* C9 witness: the 500 of /signals/polymarket/top for a request that carries
\* a proof, the variable being unset.
C9_Witness ==
    \E r \in DOMAIN req :
        /\ BypassDisabled
        /\ env.X402_TREASURY_ADDRESS = Unset
        /\ req[r].endpoint = "/signals/polymarket/top"
        /\ req[r].headers.xPayment.kind = "json"
        /\ req[r].resp.status = 500
        /\ req[r].resp.error = "server not configured"

\* C10: a payTo that is no valid account identifier is never quoted: such a
\* server answers its gated requests with a 500-class response, and no 402
\* carries a quote that names the invalid payTo.
C10_InvalidPayToNeverQuoted ==
    \A r \in DOMAIN req :
        LET q == req[r] IN
        /\ \A i \in 1..Len(q.resp.accepts) : PublicKeyOk(q.resp.accepts[i].payTo)
        /\ (q.pc = "done" /\ BypassDisabled /\ TreasuryConfigured
                /\ ~PublicKeyOk(getX402TreasuryAddress(env))) =>
               q.resp.status >= 500

\* The verifier of request q returned a result for a transaction that was
\* confirmed when it was fetched.
VerifiedConfirmed(q) ==
    /\ q.pc = "done"
    /\ q.nGet = 1
    /\ q.threw = ""
    /\ q.seen = "confirmed"

\* The transaction a request's pending ledger call is about.
CallSig(q) == IF q.pc \in {"send", "import"} THEN q.blob.sig ELSE q.sig

\* What the claim fixes of a result: tag, transaction reference, paid amount
\* and payer.
ResultOf(check) ==
    [ok |-> check.ok, sig |-> check.sig, paid |-> check.paid, payer |-> check.payer]

\* The result for the confirmed transaction sig, a required amount and a
\* payTo, written from the transaction alone: Verified, with the reference,
\* the transfers to payTo added up and the first signer (the reference form
\* names no payer), exactly when the transaction did not fail and pays at
\* least the required amount.
ResultOfConfirmed(path, sig, required, payTo) ==
    LET paid == QualifyingSum(txs[sig].instructions, payTo) IN
    IF txs[sig].err \/ paid < required
    THEN [ok |-> FALSE, sig |-> "", paid |-> 0, payer |-> Undefined]
    ELSE [ok |-> TRUE, sig |-> sig, paid |-> paid,
          payer |-> IF path = "txSig" THEN Undefined
                    ELSE toBase58(txs[sig].accountKeys[1])]

\* Request r's verifier returns its result in this step, the transaction it
\* was called with being confirmed before the step.
ReturnsOnConfirmed(r) ==
    /\ req[r].pc \in {"send", "import", "getTx"}
    /\ CallSig(req[r]) \in Sigs
    /\ chain[CallSig(req[r])] = "confirmed"
    /\ req'[r].pc = "done"
    /\ req'[r].threw = ""

\* C11: verification is idempotent: every call of a verifier that returns
\* while its transaction is confirmed returns the result (tag, reference,
\* paid amount, payer) that the transaction, the required amount and payTo
\* fix, whatever was called or submitted before, so that two calls with the
\* same three return identical results; and each ledger call a verifier
\* makes about a confirmed transaction leaves the ledger as it was.
C11_VerifyIdempotent ==
    /\ [][\A r \in DOMAIN req :
            ReturnsOnConfirmed(r) =>
                ResultOf(req'[r].check)
                    = ResultOfConfirmed(req[r].path, CallSig(req[r]), req[r].required,
                                        getX402TreasuryAddress(env))]_vars
    /\ [](\A r1 \in DOMAIN req, r2 \in DOMAIN req :
            (/\ VerifiedConfirmed(req[r1]) /\ VerifiedConfirmed(req[r2])
             /\ req[r1].path = req[r2].path
             /\ req[r1].sig = req[r2].sig
             /\ req[r1].required = req[r2].required) =>
                /\ req[r1].check = req[r2].check
                /\ req[r1].resp.status = req[r2].resp.status
                /\ req[r1].resp.payment = req[r2].resp.payment)
    /\ [][\A r \in DOMAIN req :
            (/\ req[r].pc \in {"send", "import", "getTx"}
             /\ req'[r] # req[r]
             /\ CallSig(req[r]) \in Sigs
             /\ chain[CallSig(req[r])] = "confirmed") =>
                (chain' = chain /\ txs' = txs)]_vars

\* C11 witness: two requests presented the signed bytes of sigA when it was
\* confirmed already (their submissions were refused and the signature came
\* from the bytes); both were Verified, with the same result.
C11_Witness ==
    /\ VerifiedConfirmed(req["r1"]) /\ VerifiedConfirmed(req["r2"])
    /\ req["r1"].path = "xPayment" /\ req["r2"].path = "xPayment"
    /\ req["r1"].sig = "sigA" /\ req["r2"].sig = "sigA"
    /\ req["r1"].nSend = 1 /\ req["r2"].nSend = 1
    /\ req["r1"].sent = "" /\ req["r2"].sent = ""
    /\ req["r1"].required = req["r2"].required
    /\ req["r1"].check.ok /\ req["r2"].check.ok
    /\ ResultOf(req["r1"].check) = ResultOf(req["r2"].check)

\* C12: when two requests carry the same signed transaction, in every
\* interleaving of their submit and fetch steps the transaction lands at most
\* once (once confirmed it is never queued or confirmed again) and every
\* Verified result, and its receipt, reports the sum of that one
\* transaction's transfers to payTo: nothing is counted twice.
C12_NoDoubleCount ==
    /\ [](\A r \in DOMAIN req :
            LET q == req[r]
                paid == QualifyingSum(txs[q.sig].instructions, getX402TreasuryAddress(env))
            IN (q.path = "xPayment" /\ q.check.ok) =>
                  /\ q.check.paid = paid
                  /\ q.resp.status = 200 => q.resp.payment[1].paidLamports = ToString(paid))
    /\ [][\A s \in Sigs :
            chain[s] = "confirmed" => (chain'[s] = "confirmed" /\ txs'[s] = txs[s])]_vars

\* C12 witness: both requests submitted the bytes of sigA before it landed
\* (both submissions were taken), and both were Verified.
C12_Witness ==
    /\ req["r1"].path = "xPayment" /\ req["r2"].path = "xPayment"
    /\ req["r1"].sent = "sigA" /\ req["r2"].sent = "sigA"
    /\ req["r1"].check.ok /\ req["r2"].check.ok
    /\ req["r1"].check.paid = 2000000 /\ req["r2"].check.paid = 2000000

\* The transaction reference a request presents, in either proof form
\* ("" when it presents none).
Presented(q) ==
    IF Trim(q.headers.xPaymentTx) # <<>> THEN Join(Trim(q.headers.xPaymentTx))
    ELSE IF q.headers.xPayment.kind = "json" /\ q.headers.xPayment.hasTransaction
    THEN q.headers.xPayment.transaction.sig
    ELSE ""

\* The request was answered 200 or reached the payload provider.
Granted(q) == q.resp.status = 200 \/ PayloadInvoked(q)

\* C13: after a 402 quote Q for /signals/daily, a retry with X-Payment-Tx
\* set to the signature of a confirmed, non-errored transaction that
\* transfers at least Q's maxAmountRequired to Q's payTo is answered 200
\* with paid:true and a paid amount >= Q's maxAmountRequired.
C13_PayQuoteThenUnlock ==
    LET first == req["first"]
        retry == req["retry"]
        s == Presented(retry)
    IN (/\ "first" \in DOMAIN req /\ "retry" \in DOMAIN req
        /\ first.endpoint = "/signals/daily"
        /\ first.resp.status = 402
        /\ first.resp.accepts[1].maxAmountRequired = ToString(first.required)
        /\ retry.pc = "done"
        /\ retry.path = "txSig"
        /\ retry.seen = "confirmed"
        /\ ~txs[s].err
        /\ QualifyingSum(txs[s].instructions, first.resp.accepts[1].payTo)
              >= first.required) =>
            /\ retry.resp.status = 200
            /\ retry.resp.paid = "true"
            /\ retry.check.paid >= first.required

\* The request went down the X-Payment-Tx path of /signals/daily and
\* getParsedTransaction found no transaction at confirmed commitment.
ReferenceNotVisible(q) ==
    /\ q.endpoint = "/signals/daily"
    /\ q.pc = "done"
    /\ q.path = "txSig"
    /\ q.nGet = 1
    /\ q.seen \in {"absent", "pending"}

\* C14 as stated: an X-Payment-Tx reference to a transaction not yet visible
\* at confirmed commitment is answered 402 with the reason
\* "transaction not found/confirmed yet".
C14_NotFoundReasonAsStated ==
    \A r \in DOMAIN req :
        ReferenceNotVisible(req[r]) =>
            /\ req[r].resp.status = 402
            /\ req[r].resp.error = "transaction not found/confirmed yet"

\* C14 amended: an X-Payment-Tx reference to a transaction not yet visible
\* at confirmed commitment is answered 402 with one quote and the reason
\* "transaction not found (yet)"; "transaction not found/confirmed yet" is
\* the reason of the X-PAYMENT path.
C14_NotFoundReason ==
    \A r \in DOMAIN req :
        LET q == req[r] IN
        /\ ReferenceNotVisible(q) =>
              /\ q.resp.status = 402
              /\ q.resp.error = "transaction not found (yet)"
              /\ Len(q.resp.accepts) = 1
        /\ (q.pc = "done" /\ q.path = "xPayment" /\ q.nGet = 1
                /\ q.seen \in {"absent", "pending"}) =>
              /\ q.resp.status = 402
              /\ q.resp.error = "transaction not found/confirmed yet"

\* C14 witness: the signature of a submitted, unconfirmed transaction is
\* presented in X-Payment-Tx and answered 402.
C14_Witness ==
    \E r \in DOMAIN req :
        /\ ReferenceNotVisible(req[r])
        /\ req[r].seen = "pending"
        /\ req[r].resp.status = 402
        /\ req[r].resp.error = "transaction not found (yet)"

\* The request was refused because its transaction, confirmed and not
\* failed, pays less than the amount required: the verifier's reason says so.
RejectedInsufficient(q) ==
    /\ q.pc = "done"
    /\ q.sig \in Sigs
    /\ q.seen = "confirmed"
    /\ ~q.check.ok
    /\ q.check.reason =
          InsufficientReason(q.path,
              QualifyingSum(txs[q.sig].instructions, getX402TreasuryAddress(env)),
              q.required)

\* The retry presents the transaction of the first request, for the same
\* resource, after the first request was refused as insufficient.
RetryOfInsufficient ==
    /\ "first" \in DOMAIN req /\ "retry" \in DOMAIN req
    /\ RejectedInsufficient(req["first"])
    /\ req["retry"].pc # "idle"
    /\ req["retry"].endpoint = req["first"].endpoint
    /\ Presented(req["retry"]) = Presented(req["first"])

\* C15: once a request presenting T was refused as insufficient, every later
\* request presenting T for the same resource is refused too.
C15_InsufficientIsPermanent ==
    RetryOfInsufficient => (~Granted(req["retry"]) /\ ~req["retry"].check.ok)

CeilDiv(a, b) == (a + b - 1) \div b

\* ceil(u / r) in lamports for a price of usd cents and a rate of solUsd
\* cents, in exact arithmetic: usd * 1e9 is split as usd * (q * solUsd + m)
\* so that every intermediate stays a small integer.
CeilUsdOverRate(usd, solUsd) ==
    usd * (LAMPORTS_PER_SOL \div solUsd)
        + CeilDiv(usd * (LAMPORTS_PER_SOL % solUsd), solUsd)

\* The cents of a configured price: the integer nearest 100 times it.
PriceCents(x) ==
    NatToInt(NatShr(NatAdd(NatMulSmall(NatMulSmall(x.m, 100), 2), NatShl(<<1>>, -x.e)),
                    1 - x.e))

\* C16: for every price u > 0 and rate r > 0 the conversion returns
\* ceil(u / r) in lamports (10^9 per SOL), rounded up and never down, and at
\* least 1; every quote's maxAmountRequired is that positive integer.
C16_ConversionIsCeiling ==
    \A r \in DOMAIN req :
        LET q == req[r]
            usd == PriceCents(readX402ConfigFromEnv(env).X402_PRICE_USD)
        IN (q.nOracle = 1 /\ ~OracleFailed(q.answer)) =>
              /\ q.required = CeilUsdOverRate(usd, q.answer.px)
              /\ q.required >= 1
              /\ q.resp.status = 402 =>
                     q.resp.accepts[1].maxAmountRequired
                        = ToString(CeilUsdOverRate(usd, q.answer.px))

\* The body of a response, as the caller parses it.
ResponseBody402(resp) ==
    [x402Version |-> resp.x402Version, error |-> resp.error, accepts |-> resp.accepts]

\* The handler priced the resource and answered the request itself without
\* a verifier having accepted: the no-proof path and the failure paths.
PricedAndRefused(q) ==
    /\ q.pc = "done"
    /\ q.threw = ""
    /\ q.nOracle = 1
    /\ ~OracleFailed(q.answer)
    /\ ~q.check.ok

\* C17: every 402 of a gated endpoint has the body {x402Version: 1, error,
\* accepts} with exactly one quote (scheme "exact", asset "native",
\* maxTimeoutSeconds 300, payTo the configured treasury, resource the
\* request URL, a positive maxAmountRequired) and an X-Payment-Required
\* header that decodes to that same body; the no-proof path and every
\* failure path the handler answers are such 402s.
C17_QuoteShape ==
    \A r \in DOMAIN req :
        LET q == req[r] IN
        /\ q.resp.status = 402 =>
              /\ q.resp.x402Version = 1
              /\ q.resp.error \notin {"absent", Undefined, ""}
              /\ Len(q.resp.accepts) = 1
              /\ q.resp.accepts[1].scheme = "exact"
              /\ q.resp.accepts[1].asset = "native"
              /\ q.resp.accepts[1].maxTimeoutSeconds = 300
              /\ q.resp.accepts[1].payTo = Join(env.X402_TREASURY_ADDRESS)
              /\ q.resp.accepts[1].resource = RequestUrl(q.endpoint)
              /\ q.required >= 1
              /\ q.resp.accepts[1].maxAmountRequired = ToString(q.required)
              /\ Len(q.resp.xPaymentRequired) = 1
              /\ decodeBase64Json(q.resp.xPaymentRequired[1]) = ResponseBody402(q.resp)
        /\ PricedAndRefused(q) => q.resp.status = 402

\* C17 witness: the 402 of a failure path (the transaction failed on the
\* ledger) carries the quote in body and header.
C17_Witness ==
    \E r \in DOMAIN req :
        /\ req[r].resp.status = 402
        /\ req[r].resp.error = "transaction failed"
        /\ Len(req[r].resp.accepts) = 1
        /\ decodeBase64Json(req[r].resp.xPaymentRequired[1]).accepts = req[r].resp.accepts

\* Both requests were priced at the same amount and each verifier returned
\* its result (no call to the RPC node threw).
BothJudged ==
    /\ "ref" \in DOMAIN req /\ "blob" \in DOMAIN req
    /\ req["ref"].pc = "done" /\ req["blob"].pc = "done"
    /\ req["ref"].threw = "" /\ req["blob"].threw = ""
    /\ req["ref"].required >= 1
    /\ req["ref"].required = req["blob"].required

\* C18: for a confirmed transaction, a treasury address and a required
\* amount, verifySolPayment (X-Payment-Tx) and settleAndVerifyPayment
\* (X-PAYMENT) agree on accept or reject and on the paid amount, and each
\* accepts exactly when the transaction did not fail and its system-program
\* transfers to X402_TREASURY_ADDRESS total at least the required lamports.
C18_VerifiersAgree ==
    BothJudged =>
        LET ref == req["ref"]
            blob == req["blob"]
            paid == QualifyingSum(txs["sigA"].instructions, Join(env.X402_TREASURY_ADDRESS))
        IN /\ ref.check.ok <=> blob.check.ok
           /\ ref.check.ok <=> (~txs["sigA"].err /\ paid >= ref.required)
           /\ (ref.resp.status = 200) <=> (blob.resp.status = 200)
           /\ ref.check.ok =>
                 /\ ref.check.paid = paid
                 /\ blob.check.paid = paid
                 /\ ref.resp.payment[1].paidLamports = blob.resp.payment[1].paidLamports

\* C18 witness: both verifiers accept a transaction that pays exactly the
\* required 1_000_000 lamports next to transfers that do not count.
C18_Witness ==
    /\ BothJudged
    /\ txs["sigA"].instructions =
          <<Ix("spl-token", "transfer", TreasuryAddr, 1000000),
            Ix("system", "transfer", TreasuryAddr, 1000000),
            Ix("system", "transfer", OtherAddr, 50)>>
    /\ req["ref"].required = 1000000
    /\ req["ref"].check.ok /\ req["blob"].check.ok
    /\ req["ref"].check.paid = 1000000 /\ req["blob"].check.paid = 1000000

\* The first signer of the transaction a request had verified.
FirstSigner(q) == toBase58(txs[q.sig].accountKeys[1])

\* C19: every Verified result carries the transaction reference, the paid
\* amount and the payer, the payer being the first signer of the verified
\* transaction, and so does the receipt of every 200 paid:true response of
\* /signals/daily, for X-Payment-Tx as for X-PAYMENT.
C19_ReceiptNamesPayer ==
    \A r \in DOMAIN req :
        LET q == req[r] IN
        (q.check.ok /\ q.sig \in Sigs /\ txs[q.sig].accountKeys # <<>>) =>
            /\ q.check.sig = q.sig
            /\ q.check.payer = FirstSigner(q)
            /\ (q.endpoint = "/signals/daily" /\ q.resp.status = 200) =>
                  /\ Len(q.resp.payment) = 1
                  /\ q.resp.payment[1].transaction = q.sig
                  /\ q.resp.payment[1].paidLamports = ToString(q.check.paid)
                  /\ q.resp.payment[1].payer = FirstSigner(q)

\* C20: /x402/pricing never requires payment: whatever the proof headers,
\* the bypass flag and the treasury setting, it answers 200 without a ledger
\* call, reporting the configured usd, the fetched rate, the lamports
\* derived from them and the treasury (null when unset); when the oracle
\* fetch fails it still answers 200, with rate and lamports both null.
C20_PricingIsFree ==
    \A r \in DOMAIN req :
        LET q == req[r]
            cfg == readX402ConfigFromEnv(env)
        IN (q.endpoint = "/x402/pricing" /\ cfg.ok) =>
              /\ q.nSend = 0 /\ q.nGet = 0 /\ q.nPayload = 0
              /\ q.pc \in {"pricing", "done"}
              /\ q.pc = "done" =>
                    /\ q.resp.status = 200
                    /\ q.resp.accepts = <<>>
                    /\ Len(q.resp.pricing) = 1
                    /\ q.resp.pricing[1].usd = cfg.X402_PRICE_USD
                    /\ q.resp.pricing[1].treasury =
                          (IF TreasuryConfigured THEN Join(env.X402_TREASURY_ADDRESS) ELSE Null)
                    /\ IF OracleFailed(q.answer)
                       THEN /\ q.resp.pricing[1].solUsd = JsonNull
                            /\ q.resp.pricing[1].requiredLamports = JsonNull
                       ELSE /\ q.resp.pricing[1].solUsd = JsonNumber(q.answer.px)
                            /\ q.resp.pricing[1].requiredLamports =
                                  JsonNumber(usdToLamports(cfg.X402_PRICE_USD, q.answer.px))

\* C20 witness: with bypass off, no treasury configured and a proof header
\* attached, the oracle times out and the answer is 200 with nulls.
C20_Witness ==
    \E r \in DOMAIN req :
        /\ BypassDisabled
        /\ ~TreasuryConfigured
        /\ req[r].endpoint = "/x402/pricing"
        /\ req[r].headers.xPaymentTx = <<"sigA">>
        /\ req[r].answer.kind = "timeout"
        /\ req[r].resp.status = 200
        /\ req[r].resp.pricing[1].solUsd = JsonNull
        /\ req[r].resp.pricing[1].treasury = Null

\* The request went down the X-PAYMENT path and its sendRawTransaction threw.
SubmissionThrew(q) == q.path = "xPayment" /\ q.nSend = 1 /\ q.sent = ""

\* The verdict a ledger read gives for request q's transaction: accepted iff
\* the transaction was seen confirmed, did not fail and pays enough.
LedgerAccepts(q) ==
    /\ q.seen = "confirmed"
    /\ ~txs[q.sig].err
    /\ QualifyingSum(txs[q.sig].instructions, getX402TreasuryAddress(env)) >= q.required

\* C21: in the blob form a failed submission is not by itself a rejection:
\* when sendRawTransaction threw and the bytes deserialize with a first
\* signature, the transaction is fetched under that signature and judged on
\* the ledger as in the reference form; "could not determine tx signature"
\* is the result exactly when the submission threw and the bytes gave no
\* signature.
C21_SubmissionFailureRecovers ==
    \A r \in DOMAIN req :
        LET q == req[r] IN
        /\ q.pc = "import" => (SubmissionThrew(q) /\ q.check = NoResult /\ q.nGet = 0)
        /\ (SubmissionThrew(q) /\ q.pc # "import" /\ q.blob.bytes = "tx") =>
              /\ q.sig = q.blob.sig
              /\ q.check.reason # "could not determine tx signature"
              /\ q.pc = "getTx" \/ q.nGet = 1
              /\ (q.pc = "done" /\ q.threw = "") =>
                    /\ q.check.ok <=> LedgerAccepts(q)
                    /\ q.seen # "confirmed" =>
                          q.check.reason = "transaction not found/confirmed yet"
        /\ (SubmissionThrew(q) /\ q.pc # "import" /\ q.blob.bytes # "tx") =>
              /\ q.check.reason = "could not determine tx signature"
              /\ q.nGet = 0 /\ q.pc = "done" /\ q.resp.status = 402
        /\ q.check.reason = "could not determine tx signature" =>
              SubmissionThrew(q) /\ q.blob.bytes # "tx"

\* A resubmission of a confirmed, sufficient transaction was refused by the
\* node, and the request was verified and answered 200 all the same.
C21_Witness ==
    \E r \in DOMAIN req :
        /\ SubmissionThrew(req[r])
        /\ req[r].blob.bytes = "tx"
        /\ req[r].seen = "confirmed"
        /\ req[r].check.ok
        /\ req[r].resp.status = 200

\* The text each verifier gives for a transaction the ledger does not return.
NotFoundReason(path) ==
    IF path = "txSig" THEN "transaction not found (yet)"
    ELSE "transaction not found/confirmed yet"

\* C22: a transaction that is found and whose metadata reports an execution
\* error is rejected with "transaction failed" and answered 402 with that
\* reason, whatever its instruction list transfers to the treasury, by both
\* verifiers; a transaction that is not found is reported as not found,
\* whatever its contents are.
C22_ExecutionErrorRejects ==
    \A r \in DOMAIN req :
        LET q == req[r] IN
        (q.pc = "done" /\ q.nGet = 1 /\ q.threw = "") =>
            /\ (q.seen = "confirmed" /\ txs[q.sig].err) =>
                  /\ ~q.check.ok
                  /\ q.check.reason = "transaction failed"
                  /\ q.resp.status = 402
                  /\ q.resp.error = "transaction failed"
            /\ q.seen # "confirmed" =>
                  /\ ~q.check.ok
                  /\ q.check.reason = NotFoundReason(q.path)
                  /\ q.resp.status = 402

\* A failed transaction whose transfers to the treasury fall short of the
\* required amount was presented by signature and rejected as failed.
C22_Witness ==
    \E r \in DOMAIN req :
        /\ req[r].pc = "done"
        /\ req[r].path = "txSig"
        /\ req[r].seen = "confirmed"
        /\ txs[req[r].sig].err
        /\ QualifyingSum(txs[req[r].sig].instructions, TreasuryAddr) < req[r].required
        /\ req[r].check.reason = "transaction failed"

\* C23: after sendRawTransaction accepted the caller's transaction, the
\* engine waits for its confirmation before deciding: a request whose
\* submission succeeded is answered "not found/confirmed yet" only after
\* the transaction stayed invisible over repeated reads of the ledger
\* (confirmation polls), never on the strength of one immediate read.
C23_WaitsForConfirmation ==
    \A r \in DOMAIN req :
        LET q == req[r] IN
        (/\ q.pc = "done"
         /\ q.path = "xPayment"
         /\ q.sent \in Sigs
         /\ q.threw = ""
         /\ q.check.reason = "transaction not found/confirmed yet") =>
            q.nGet >= 2

\* The signed bytes the caller supplied in its X-PAYMENT header (or in
\* PAYMENT-SIGNATURE, which the gate reads in its place).
SuppliedBlob(h) ==
    IF h.xPayment.kind # "absent" THEN h.xPayment.transaction
    ELSE h.paymentSignature.transaction

\* C24: the gate authors no ledger mutation. The reference form never
\* submits; a request of the blob form submits at most once, and what it
\* submits is the caller's bytes; every step of a handler leaves the
\* contents of the transactions alone and leaves the ledger as it was,
\* except the one submission, whose only effect is that the caller's own
\* transaction is now pending.
C24_GateAuthorsNoLedgerMutation ==
    /\ [](\A r \in DOMAIN req :
            LET q == req[r] IN
            /\ q.nSend <= 1
            /\ q.path = "txSig" =>
                  (q.nSend = 0 /\ q.sent = "" /\ q.pc \notin {"send", "import"})
            /\ (q.pc = "send" \/ q.nSend = 1) => q.blob = SuppliedBlob(q.headers)
            /\ q.sent # "" => q.sent = SuppliedBlob(q.headers).sig)
    /\ [][/\ txs' = txs
          /\ \A r \in DOMAIN req :
                req'[r] # req[r] =>
                    \/ chain' = chain
                    \/ /\ req[r].pc = "send"
                       /\ req[r].blob.bytes = "tx"
                       /\ chain' = [chain EXCEPT ![req[r].blob.sig] = "pending"]]_vars

\* A request of the blob form submitted its caller's transaction, which is
\* on the ledger since, and has been answered.
C24_Witness ==
    \E r \in DOMAIN req :
        /\ req[r].pc = "done"
        /\ req[r].path = "xPayment"
        /\ req[r].nSend = 1
        /\ req[r].sent = SuppliedBlob(req[r].headers).sig
        /\ req[r].sent \in Sigs
        /\ chain[req[r].sent] # "absent"

\* C25: every gated request that is being handled is eventually answered,
\* with status 200, 402, 500 or 502, whether or not the oracle and the
\* ledger's RPC node reply: each await is cut short by a timeout.
C25_EveryRequestAnswered ==
    (req["r1"].pc # "idle") ~>
        (req["r1"].pc = "done" /\ req["r1"].resp.status \in {200, 402, 500, 502})

\* C26: within one gated request the oracle is asked once and one required
\* amount is derived from its answer: the quote's maxAmountRequired is that
\* amount and its extra.solPrice that rate, a 402 of the request carries
\* that quote, and the verifier judges the payment against that amount; the
\* amount of an earlier request plays no part.
C26_OneRateOneAmount ==
    \A r \in DOMAIN req :
        LET q == req[r] IN
        /\ q.nOracle <= 1
        /\ (q.pc \in {"send", "import", "getTx", "payload"} /\ ~q.bypass) => q.nOracle = 1
        /\ (q.nOracle = 1 /\ ~OracleFailed(q.answer)) =>
              /\ q.required =
                    usdToLamports(readX402ConfigFromEnv(env).X402_PRICE_USD, q.answer.px)
              /\ Len(q.accepts) = 1
              /\ q.accepts[1].maxAmountRequired = ToString(q.required)
              /\ q.accepts[1].extra.solPrice = q.answer.px
              /\ q.resp.status = 402 => q.resp.accepts = q.accepts
        /\ (VerifiedConfirmed(q) /\ ~txs[q.sig].err) =>
              LET paid == QualifyingSum(txs[q.sig].instructions,
                                        getX402TreasuryAddress(env)) IN
              IF paid >= q.required THEN q.check.ok /\ q.check.paid = paid
              ELSE /\ q.check.reason = InsufficientReason(q.path, paid, q.required)
                   /\ q.resp.error = q.check.reason
                   /\ q.resp.accepts[1].maxAmountRequired = ToString(q.required)

\* The rate moved between a request and its retry: the retry was judged
\* against its own, higher amount, which its 402 quotes.
C26_Witness ==
    /\ "first" \in DOMAIN req /\ "retry" \in DOMAIN req
    /\ req["first"].pc = "done" /\ req["first"].check.ok
    /\ req["first"].required < req["retry"].required
    /\ Presented(req["retry"]) = Presented(req["first"])
    /\ RejectedInsufficient(req["retry"])
    /\ req["retry"].resp.status = 402
    /\ req["retry"].resp.accepts[1].maxAmountRequired = ToString(req["retry"].required)
    /\ req["retry"].resp.accepts[1].extra.solPrice = req["retry"].answer.px

\* The handler of request q called the ledger's RPC node, or is waiting for
\* its reply.
LedgerTouched(q) == q.nSend + q.nGet >= 1 \/ q.pc \in {"send", "import", "getTx"}

\* A header value with nothing but blanks in it (or nothing at all).
Blank(s) == \A i \in 1..Len(s) : s[i] = " "

\* The request carries a proof header: an X-Payment-Tx that is not blank,
\* or an X-PAYMENT (or its alias PAYMENT-SIGNATURE).
ProofHeaderPresent(h) ==
    \/ ~Blank(h.xPaymentTx)
    \/ h.xPayment.kind # "absent"
    \/ h.paymentSignature.kind # "absent"

\* C27: with bypass disabled a gated handler checks, in this order, that the
\* treasury is configured (else 500, the oracle is not asked), that the
\* oracle gave a valid rate (else 502, whatever the headers), that a proof
\* header is present, and only then goes to the ledger: no ledger call is
\* made or pending unless all three hold, and a request with no proof
\* header, or with a blank X-Payment-Tx and no X-PAYMENT, is answered 402
\* with the generic quote without touching the ledger.
C27_ChecksInOrder ==
    \A r \in DOMAIN req :
        LET q == req[r] IN
        /\ LedgerTouched(q) =>
              /\ BypassDisabled
              /\ TreasuryConfigured
              /\ q.nOracle = 1 /\ ~OracleFailed(q.answer)
              /\ ProofHeaderPresent(q.headers)
        /\ (q.pc # "idle" /\ BypassDisabled /\ ~TreasuryConfigured) =>
              q.pc = "done" /\ q.resp.status = 500 /\ q.nOracle = 0
        /\ (q.nOracle = 1 /\ OracleFailed(q.answer)) =>
              q.pc = "done" /\ q.resp.status = 502 /\ q.check = NoResult
        /\ (/\ BypassDisabled
            /\ q.nOracle = 1 /\ ~OracleFailed(q.answer)
            /\ ~ProofHeaderPresent(q.headers)) =>
              /\ q.pc = "done"
              /\ ~LedgerTouched(q)
              /\ q.resp.status = 402
              /\ q.resp.error = "Payment required"
              /\ q.resp.accepts = q.accepts

\* A request with a blank X-Payment-Tx header and no X-PAYMENT was priced
\* and answered 402 with the generic quote.
C27_Witness ==
    \E r \in DOMAIN req :
        /\ req[r].headers.xPaymentTx = <<" ">>
        /\ req[r].headers.xPayment.kind = "absent"
        /\ req[r].nOracle = 1
        /\ req[r].resp.status = 402
        /\ req[r].resp.error = "Payment required"
        /\ ~LedgerTouched(req[r])

\* A verifier gave request q its verdict on what getParsedTransaction
\* returned.
Judged(q) == q.nGet = 1 /\ q.threw # "getTx" /\ q.pc \in {"done", "payload"}

\* C28: the access decision depends only on the ledger, the rate and the
\* configuration, and nothing records that a transaction was used: two
\* requests that read the same transaction in the same ledger state at the
\* same required amount get the same verdict, whatever the resource and the
\* proof form; so a transaction that was granted on /signals/daily is
\* granted again, with the same paid amount, by every later request that
\* presents it at that rate, for /signals/daily and for
\* /signals/polymarket/top.
C28_NoReplayState ==
    LET first == req["first"]
        retry == req["retry"]
    IN
    /\ (/\ Judged(first) /\ Judged(retry)
        /\ first.sig = retry.sig
        /\ first.seen = retry.seen
        /\ first.required = retry.required) =>
            /\ first.check.ok = retry.check.ok
            /\ first.check.ok => first.check.paid = retry.check.paid
    /\ (/\ first.endpoint = "/signals/daily"
        /\ first.pc = "done" /\ first.check.ok /\ first.resp.status = 200
        /\ Judged(retry)
        /\ Presented(retry) = Presented(first)
        /\ retry.answer = first.answer) =>
            /\ retry.check.ok
            /\ retry.check.paid = first.check.paid
            /\ Granted(retry)
            /\ retry.endpoint = "/signals/daily" =>
                  retry.resp.status = 200 /\ retry.resp.paid = "true"

\* A transaction that unlocked /signals/daily was presented again, for
\* /signals/polymarket/top, and the payload was served.
C28_Witness ==
    /\ "first" \in DOMAIN req /\ "retry" \in DOMAIN req
    /\ req["first"].endpoint = "/signals/daily"
    /\ req["first"].resp.status = 200 /\ req["first"].check.ok
    /\ req["retry"].endpoint = "/signals/polymarket/top"
    /\ Presented(req["retry"]) = Presented(req["first"])
    /\ req["retry"].answer = req["first"].answer
    /\ req["retry"].check.ok
    /\ req["retry"].resp.status = 200

\* C29: retrying makes progress on the blob path. A caller keeps sending the
\* same X-PAYMENT header, whose transaction is valid and pays at least the
\* required amount, and the oracle stays available: every request that is
\* answered once the ledger has confirmed the transaction is answered 200
\* paid:true, also when its resubmission was refused, and with the ledger
\* confirming what is submitted the caller is eventually granted access.
C29_RetryMakesProgress ==
    /\ [][\A r \in DOMAIN req :
            (/\ req[r].pc \in {"send", "import", "getTx"}
             /\ req[r].path = "xPayment"
             /\ req'[r].pc = "done"
             /\ chain[req[r].blob.sig] = "confirmed"
             /\ QualifyingSum(txs[req[r].blob.sig].instructions,
                              getX402TreasuryAddress(env)) >= req[r].required) =>
                /\ req'[r].resp.status = 200
                /\ req'[r].resp.paid = "true"
                /\ req'[r].resp.payment[1].transaction = req[r].blob.sig]_vars
    /\ <>(req["r1"].pc = "done" /\ req["r1"].resp.status = 200
            /\ req["r1"].resp.paid = "true")

\* C30: in every 200 paid:true response the receipt's payment.network is the
\* network of the quote (accepts[0].network, from getX402Network) that the
\* server issues for that resource, whichever network is configured.
C30_ReceiptNetworkIsQuoteNetwork ==
    \A r \in DOMAIN req :
        LET q == req[r] IN
        (/\ q.pc = "done"
         /\ q.resp.status = 200
         /\ q.resp.paid = "true"
         /\ Len(q.resp.payment) = 1) =>
            /\ q.resp.payment[1].network = q.accepts[1].network
            /\ q.resp.payment[1].network = getX402Network(env)

====
